---- MODULE Spec2Model ----
(***************************************************************************)
(* Model of the Snowmass availability monitor (api/snowmass-monitor.js):   *)
(* the HTTP handler, runMonitor's period loop, the baseline store, the     *)
(* visual comparison and the daily notification throttle.                  *)
(*                                                                         *)
(* Time is counted in ticks of a fraction of a day; a timestamp is the     *)
(* tick it was taken at.                                                   *)
(* Every filesystem call, browser call and webhook POST either succeeds    *)
(* or throws; the choice is the environment's.                             *)
(*                                                                         *)
(* Spec is the monitor as a whole.  SpecCompare, SpecConfidence and        *)
(* SpecMonths call performVisualComparison, the text analysis of           *)
(* validateMonthWithTextExtraction and getMonthsToCheck on their own, over *)
(* bounded sets of arguments.  SpecOverlap is the part of the handler      *)
(* after runMonitor for two invocations at once.  SpecNavigate (with weak  *)
(* fairness: SpecNavigateLive) is one call of navigateToMonth and          *)
(* SpecStability one call of waitForCalendarStability, on a page that      *)
(* answers every read as it likes.  SpecLog is logNotification after a     *)
(* delivered webhook, over bounded logs; SpecPixel is                      *)
(* performVisualComparison on one pixel of every colour around the         *)
(* availability bands.                                                     *)
(***************************************************************************)
EXTENDS Integers, Sequences, FiniteSets, TLC

\* ------------------------------------------------------------------ bounds
MaxTime == 2          \* ticks the clock may advance
TicksPerDay == 2      \* granularity of the clock
MaxRuns == 1          \* invocations of the handler

\* --------------------------------------------------------- program constants
MAX_DAILY_NOTIFICATIONS == 2
SEVEN_DAYS == 7 * TicksPerDay   \* 7 * 24 * 60 * 60 * 1000 ms
maxRetries == 3
COLOR_DIFF_SQ == 900  \* colorDiff > 30, squared

\* ------------------------------------------------------------------ inputs
Runs == {1, 2}
Methods == {"GET", "POST", "PUT"}

\* the period keys getMonthsToCheck yields for the modelled dates
MonthsToCheck == <<"2025-09", "2025-10", "2025-11">>
Keys == {MonthsToCheck[i] : i \in 1..Len(MonthsToCheck)}

\* one-pixel RGBA buffers a screenshot may hold
Dark == <<100, 100, 100, 255>>
Tan == <<230, 225, 200, 255>>
Images == {Dark, Tan}

\* error.message of a failed capture and of a failed baseline write
CaptureError == "capture failed"
WriteError == "baseline write failed"

NoFile == <<-1>>
NoShot == <<>>
NoResponse == [status |-> 0]

\* no function is being called directly
NoCall == [fn |-> "none"]

VARIABLES
  now,              \* the clock, in ticks
  baselines,        \* STORAGE_PATH: period key -> stored buffer or NoFile
  notificationLog,  \* NOTIFICATION_LOG_PATH: sequence of records
  run,              \* per invocation: the handler's position and locals
  invocations,      \* requests received so far
  obs,              \* per invocation: what it did to the outside world
  deliveredOn,      \* day -> number of webhooks answered 2xx on that day
  call              \* a direct call of one function: its arguments and result

vars == <<now, baselines, notificationLog, run, invocations, obs, deliveredOn, call>>

\* new Date(ts).toDateString(): the calendar day of a timestamp
DateString(ts) == ts \div TicksPerDay

Days == 0..DateString(MaxTime)

\* ------------------------------------------------------------- pure helpers
Abs(x) == IF x < 0 THEN -x ELSE x
Min(a, b) == IF a < b THEN a ELSE b

\* --------------------------------------------------- performVisualComparison
isDateHighlight(R, G, B) ==
  \/ (R > 200 /\ G > 200 /\ B > 240)
  \/ (R > 150 /\ G > 170 /\ B > 200)
  \/ (Abs(R - G) < 20 /\ Abs(G - B) < 20 /\ R > 180)

\* mutant: the tan band reaches five levels further up in green
isAvailable_WiderTan(R, G, B) ==
  \/ /\ R >= 215 /\ R <= 240
     /\ G >= 215 /\ G <= 240
     /\ B >= 210 /\ B <= 235
     /\ Abs(R - G) < 15 /\ Abs(G - B) < 15
  \/ /\ R >= 210 /\ R <= 235
     /\ G >= 205 /\ G <= 235
     /\ B >= 190 /\ B <= 220
     /\ R > B + 10

isAvailable(R, G, B) ==
  \/ /\ R >= 215 /\ R <= 240
     /\ G >= 215 /\ G <= 240
     /\ B >= 210 /\ B <= 235
     /\ Abs(R - G) < 15 /\ Abs(G - B) < 15
  \/ /\ R >= 210 /\ R <= 235
     /\ G >= 205 /\ G <= 230
     /\ B >= 190 /\ B <= 220
     /\ R > B + 10

isBackground(R, G, B) == R > 240 /\ G > 240 /\ B > 240

\* mutant: a pixel cut off after its blue byte is sampled too
PixelStarts_CountsPartial(minLength) ==
  {i \in 0..(minLength - 1) : i % 4 = 0 /\ i + 2 < minLength}

\* byte offsets (0-based) of the pixels the loop samples
PixelStarts(minLength) ==
  {i \in 0..(minLength - 1) : i % 4 = 0 /\ i + 3 < minLength}

\* mutant: only the current pixel is tested against the highlight rules
PixelClass_CurrentOnly(baselineBuffer, currentBuffer, i) ==
  LET cR == currentBuffer[i + 1]
      cG == currentBuffer[i + 2]
      cB == currentBuffer[i + 3]
      bR == baselineBuffer[i + 1]
      bG == baselineBuffer[i + 2]
      bB == baselineBuffer[i + 3]
      diffSq == (cR - bR) * (cR - bR) + (cG - bG) * (cG - bG) + (cB - bB) * (cB - bB)
  IN IF ~(diffSq > COLOR_DIFF_SQ) THEN "unchanged"
     ELSE IF isDateHighlight(cR, cG, cB) THEN "highlight"
     ELSE IF isAvailable(cR, cG, cB) /\ ~isAvailable(bR, bG, bB) /\ ~isBackground(bR, bG, bB)
       THEN "increase"
     ELSE IF ~isAvailable(cR, cG, cB) /\ ~isAvailable(bR, bG, bB) THEN "nonAvailability"
     ELSE "changed"

\* what the loop body does with the pixel at offset i
PixelClass(baselineBuffer, currentBuffer, i) ==
  LET cR == currentBuffer[i + 1]
      cG == currentBuffer[i + 2]
      cB == currentBuffer[i + 3]
      bR == baselineBuffer[i + 1]
      bG == baselineBuffer[i + 2]
      bB == baselineBuffer[i + 3]
      diffSq == (cR - bR) * (cR - bR) + (cG - bG) * (cG - bG) + (cB - bB) * (cB - bB)
  IN IF ~(diffSq > COLOR_DIFF_SQ) THEN "unchanged"
     ELSE IF isDateHighlight(cR, cG, cB) \/ isDateHighlight(bR, bG, bB) THEN "highlight"
     ELSE IF isAvailable(cR, cG, cB) /\ ~isAvailable(bR, bG, bB) /\ ~isBackground(bR, bG, bB)
       THEN "increase"
     ELSE IF ~isAvailable(cR, cG, cB) /\ ~isAvailable(bR, bG, bB) THEN "nonAvailability"
     ELSE "changed"

\* the number 0/0, which is neither below, above nor equal to any number
NaN == -1

\* (num / den * 100).toFixed(3), in thousandths of a percent; 0/0 is NaN
ToFixed3(num, den) ==
  IF den = 0 THEN NaN ELSE (2 * num * 100000 + den) \div (2 * den)

performVisualComparison(baselineBuffer, currentBuffer) ==
  LET minLength == Min(Len(baselineBuffer), Len(currentBuffer))
      px == PixelStarts(minLength)
      cls(i) == PixelClass(baselineBuffer, currentBuffer, i)
      totalPixels == Cardinality(px)
      changedPixels ==
        Cardinality({i \in px : cls(i) \in {"increase", "nonAvailability", "changed"}})
      availabilityIncrease == Cardinality({i \in px : cls(i) = "increase"})
      \* changePercentage > 2.0 and availabilityScore > 0.01; NaN compares false
      significantChange == totalPixels > 0 /\ changedPixels * 100 > 2 * totalPixels
      likelyNewAvailability ==
        availabilityIncrease > 0 /\ availabilityIncrease * 10000 > totalPixels
  IN [changePercentage |-> ToFixed3(changedPixels, totalPixels),
      availabilityScore |-> ToFixed3(availabilityIncrease, totalPixels),
      changedPixels |-> changedPixels,
      totalPixels |-> totalPixels,
      availabilityIncrease |-> availabilityIncrease,
      dateHighlightChanges |-> Cardinality({i \in px : cls(i) = "highlight"}),
      nonAvailabilityChanges |-> Cardinality({i \in px : cls(i) = "nonAvailability"}),
      significantChange |-> significantChange,
      likelyNewAvailability |-> likelyNewAvailability]

\* ------------------------------------------------------ compareWithBaseline
\* the outcome returned when the baseline was read (lines 811-816)
ComparedOutcome(key, baselineBuffer, currentScreenshot) ==
  LET comparison == performVisualComparison(baselineBuffer, currentScreenshot)
  IN [month |-> key,
      error |-> FALSE,
      hasBaseline |-> TRUE,
      shouldNotify |-> comparison.significantChange /\ comparison.likelyNewAvailability,
      shouldUpdateBaseline |-> comparison.significantChange,
      message |-> "",
      changePercentage |-> comparison.changePercentage,
      availabilityIncrease |-> comparison.availabilityIncrease,
      significantChange |-> comparison.significantChange,
      likelyNewAvailability |-> comparison.likelyNewAvailability]

\* the outcome returned after a baseline was created (lines 822-827)
CreatedOutcome(key) ==
  [month |-> key,
   error |-> FALSE,
   hasBaseline |-> FALSE,
   shouldNotify |-> FALSE,
   shouldUpdateBaseline |-> FALSE,
   message |-> "Baseline created",
   changePercentage |-> 0,
   availabilityIncrease |-> 0,
   significantChange |-> FALSE,
   likelyNewAvailability |-> FALSE]

\* the outcome runMonitor's catch records (lines 171-176); message is the
\* error.message of what was thrown
ErrorOutcome(key, message) ==
  [month |-> key,
   error |-> TRUE,
   hasBaseline |-> FALSE,
   shouldNotify |-> FALSE,
   shouldUpdateBaseline |-> FALSE,
   message |-> message,
   changePercentage |-> 0,
   availabilityIncrease |-> 0,
   significantChange |-> FALSE,
   likelyNewAvailability |-> FALSE]

\* results.filter(r => r.shouldNotify)
IsNotable(r) == r.shouldNotify
changedMonths(results) == SelectSeq(results, IsNotable)

\* ---------------------------------------------------------------- throttle
IsToday(n) == DateString(n.timestamp) = DateString(now)
todayNotifications(log) == SelectSeq(log, IsToday)

\* mutant: the limit counts as reached when the log cannot be read
checkNotificationLimit_FailsClosed(readOk) ==
  IF readOk
    THEN Len(todayNotifications(notificationLog)) < MAX_DAILY_NOTIFICATIONS
    ELSE FALSE

\* the value checkNotificationLimit returns; readOk: mkdir, readFile and
\* JSON.parse all succeeded
checkNotificationLimit(readOk) ==
  IF readOk
    THEN Len(todayNotifications(notificationLog)) < MAX_DAILY_NOTIFICATIONS
    ELSE TRUE

\* mutant: a record written exactly seven days ago is kept
IsRecent_Inclusive(n) == n.timestamp >= now - SEVEN_DAYS

\* new Date(n.timestamp) > sevenDaysAgo
IsRecent(n) == n.timestamp > now - SEVEN_DAYS

\* logNotification up to the write: the log as read (empty when the read
\* failed), the new record pushed, records of 7 days ago and older dropped
logNotificationBuffer(readOk) ==
  LET loaded == IF readOk THEN notificationLog ELSE <<>>
      pushed == Append(loaded, [timestamp |-> now, type |-> "availability_change"])
  IN SelectSeq(pushed, IsRecent)

\* mutant: an existing baseline file is kept
saveBaseline_KeepsExisting(store, monthKey, screenshot) ==
  IF store[monthKey] = NoFile THEN [store EXCEPT ![monthKey] = screenshot] ELSE store

\* saveBaseline: one blob per period key, overwritten
saveBaseline(store, monthKey, screenshot) == [store EXCEPT ![monthKey] = screenshot]

\* webhookSent of the trigger response (line 58)
webhookSent(results) == Len(changedMonths(results)) > 0

\* ------------------------------------------------------------------- state
\* run[r]: pc and the locals of handler, runMonitor, sendWebhookNotification
\* and logNotification.  obs[r]: counts of the invocation's calls on the
\* outside world, and todayAtCheck, the number of today's records the
\* persisted log held when checkNotificationLimit was called (-1: not called)
IdleRun ==
  [pc |-> "idle", method |-> "NONE", credentials |-> FALSE, browser |-> "none",
   failedAt |-> "none", loggedIn |-> FALSE, idx |-> 0, attempt |-> 0, delays |-> <<>>,
   shot |-> NoShot,
   results |-> <<>>, canNotify |-> FALSE, logBuf |-> <<>>, response |-> NoResponse]

NoObs ==
  [launches |-> 0, closes |-> 0, baselineReads |-> 0,
   baselineWrites |-> 0, logReads |-> 0, logWrites |-> 0, posts |-> 0,
   delivered |-> 0, todayAtCheck |-> -1]

\* The process starts on the files earlier invocations left: no baselines
\* (first deployment) or the baselines a first run created, and the log of
\* a day on which no webhook, or the day's two webhooks, were delivered.
\* (From a first deployment, four invocations without failures reach the
\* state with all baselines Dark and two deliveries logged on day 0.)
Init ==
  /\ now = 0
  /\ baselines \in {[k \in Keys |-> NoFile], [k \in Keys |-> Dark]}
  /\ \E n \in {0, MAX_DAILY_NOTIFICATIONS} :
       /\ notificationLog = [i \in 1..n |-> [timestamp |-> 0, type |-> "availability_change"]]
       /\ deliveredOn = [d \in Days |-> IF d = 0 THEN n ELSE 0]
  /\ run = [r \in Runs |-> IdleRun]
  /\ invocations = 0
  /\ obs = [r \in Runs |-> NoObs]
  /\ call = NoCall

NoRunActive == \A q \in Runs : run[q].pc \in {"idle", "done"}

\* the loop moves to the next month, or runMonitor leaves the loop
NextMonth(rec) ==
  IF rec.idx < Len(MonthsToCheck)
    THEN [rec EXCEPT !.idx = @ + 1, !.attempt = 1, !.delays = <<>>, !.shot = NoShot,
                     !.pc = "capture"]
    ELSE [rec EXCEPT !.idx = 0, !.attempt = 0, !.delays = <<>>, !.shot = NoShot,
                     !.pc = "summarize"]

\* mutant: the period's error escapes the loop and fails the run
PeriodFailed_Aborts(rec, message) ==
  [rec EXCEPT !.pc = "done", !.browser = "closed", !.response = [status |-> 500]]

\* the catch of the period loop: an error outcome is pushed (lines 165-177)
PeriodFailed(rec, message) ==
  NextMonth([rec EXCEPT !.results = Append(@, ErrorOutcome(MonthsToCheck[rec.idx], message))])

\* ----------------------------------------------------------------- actions
\* mutant: the handler starts the run without checking the credentials
Request_NoCredentialCheck(r, method, credentials) ==
  /\ run[r].pc \in {"idle", "done"}
  /\ invocations < MaxRuns
  /\ invocations' = invocations + 1
  /\ obs' = [obs EXCEPT ![r] = NoObs]
  /\ run' = [run EXCEPT ![r] =
       LET fresh == [IdleRun EXCEPT !.method = method, !.credentials = credentials]
       IN IF method = "GET"
            THEN [fresh EXCEPT !.pc = "done",
                               !.response = [status |-> 200, healthy |-> TRUE]]
          ELSE IF method # "POST"
            THEN [fresh EXCEPT !.pc = "done", !.response = [status |-> 405]]
          ELSE [fresh EXCEPT !.pc = "launch"]]
  /\ UNCHANGED <<call, now, baselines, notificationLog, deliveredOn>>

\* handler, lines 11-37: method and credential checks
Request(r, method, credentials) ==
  /\ run[r].pc \in {"idle", "done"}
  /\ invocations < MaxRuns
  /\ invocations' = invocations + 1
  /\ obs' = [obs EXCEPT ![r] = NoObs]
  /\ run' = [run EXCEPT ![r] =
       LET fresh == [IdleRun EXCEPT !.method = method, !.credentials = credentials]
       IN IF method = "GET"
            THEN [fresh EXCEPT !.pc = "done",
                               !.response = [status |-> 200, healthy |-> TRUE]]
          ELSE IF method # "POST"
            THEN [fresh EXCEPT !.pc = "done", !.response = [status |-> 405]]
          ELSE IF ~credentials
            THEN [fresh EXCEPT !.pc = "done", !.response = [status |-> 400]]
          ELSE [fresh EXCEPT !.pc = "launch"]]
  /\ UNCHANGED <<call, now, baselines, notificationLog, deliveredOn>>

\* runMonitor, lines 100-121: chromium.launch, outside the try
Launch(r) ==
  /\ run[r].pc = "launch"
  /\ \E ok \in BOOLEAN :
       IF ok
         THEN /\ run' = [run EXCEPT ![r].pc = "login", ![r].browser = "open"]
              /\ obs' = [obs EXCEPT ![r].launches = @ + 1]
         ELSE /\ run' = [run EXCEPT ![r].pc = "done", ![r].failedAt = "launch",
                                    ![r].response = [status |-> 500]]
              /\ UNCHANGED obs
  /\ UNCHANGED <<call, invocations, now, baselines, notificationLog, deliveredOn>>

\* mutant: a failed login leaves runMonitor without closing the browser
Login_LeaksBrowser(r) ==
  /\ run[r].pc = "login"
  /\ \E ok \in BOOLEAN :
       IF ok
         THEN run' = [run EXCEPT ![r] = NextMonth([@ EXCEPT !.loggedIn = TRUE])]
         ELSE run' = [run EXCEPT ![r].pc = "done", ![r].failedAt = "login",
                                 ![r].response = [status |-> 500]]
  /\ UNCHANGED <<call, obs, invocations, now, baselines, notificationLog, deliveredOn>>

\* runMonitor, lines 124-130: newContext, newPage, doLogin; a failure leaves
\* through the finally (browser.close) and reaches the handler's catch
Login(r) ==
  /\ run[r].pc = "login"
  /\ \E ok \in BOOLEAN :
       IF ok
         THEN /\ run' = [run EXCEPT ![r] = NextMonth([@ EXCEPT !.loggedIn = TRUE])]
              /\ UNCHANGED obs
         ELSE /\ run' = [run EXCEPT ![r].pc = "done", ![r].failedAt = "login",
                                    ![r].browser = "closed",
                                    ![r].response = [status |-> 500]]
              /\ obs' = [obs EXCEPT ![r].closes = @ + 1]
  /\ UNCHANGED <<call, invocations, now, baselines, notificationLog, deliveredOn>>

\* mutant: every retry waits one second
retryDelay_Constant(attempt) == 1000

\* Math.min(1000 * Math.pow(2, attempt - 1), 8000), in ms (line 501)
retryDelay(attempt) == Min(1000 * 2 ^ (attempt - 1), 8000)

\* mutant: a period whose capture failed for good loses its baseline
Capture_DropsBaseline(r) ==
  /\ run[r].pc = "capture"
  /\ UNCHANGED obs
  /\ \/ /\ \E screenshot \in Images :
             run' = [run EXCEPT ![r].shot = screenshot, ![r].pc = "compare"]
        /\ UNCHANGED baselines
     \/ /\ run' = [run EXCEPT ![r] =
             IF @.attempt = maxRetries THEN PeriodFailed(@, CaptureError)
             ELSE [@ EXCEPT !.attempt = @ + 1,
                            !.delays = Append(@, retryDelay(run[r].attempt))]]
        /\ baselines' = IF run[r].attempt = maxRetries
                          THEN [baselines EXCEPT ![MonthsToCheck[run[r].idx]] = NoFile]
                          ELSE baselines
  /\ UNCHANGED <<call, invocations, now, notificationLog, deliveredOn>>

\* captureMonthWithRetry, lines 491-506: one attempt of captureMonth and,
\* when it failed and was not the last, the wait before the next; delays
\* are the waits of the period so far
Capture(r) ==
  /\ run[r].pc = "capture"
  /\ UNCHANGED obs
  /\ \/ \E screenshot \in Images :
          run' = [run EXCEPT ![r].shot = screenshot, ![r].pc = "compare"]
     \/ run' = [run EXCEPT ![r] =
          IF @.attempt = maxRetries THEN PeriodFailed(@, CaptureError)
          ELSE [@ EXCEPT !.attempt = @ + 1,
                         !.delays = Append(@, retryDelay(run[r].attempt))]]
  /\ UNCHANGED <<call, invocations, now, baselines, notificationLog, deliveredOn>>

\* mutant: runMonitor saves the screenshot after every comparison
Compare_AlwaysSaves(r) ==
  /\ run[r].pc = "compare"
  /\ obs' = [obs EXCEPT ![r].baselineReads = @ + 1]
  /\ \E readOk \in BOOLEAN :
       LET key == MonthsToCheck[run[r].idx]
           outcome == ComparedOutcome(key, baselines[key], run[r].shot)
           pushed == [run[r] EXCEPT !.results = Append(@, outcome)]
       IN IF readOk /\ baselines[key] # NoFile
            THEN run' = [run EXCEPT ![r] = [pushed EXCEPT !.pc = "save"]]
            ELSE run' = [run EXCEPT ![r].pc = "create"]
  /\ UNCHANGED <<call, invocations, now, baselines, notificationLog, deliveredOn>>

\* mutant: a failing read of an existing baseline is thrown to the period
\* loop's catch
Compare_ReadErrorFails(r) ==
  /\ run[r].pc = "compare"
  /\ obs' = [obs EXCEPT ![r].baselineReads = @ + 1]
  /\ \E readOk \in BOOLEAN :
       LET key == MonthsToCheck[run[r].idx]
           outcome == ComparedOutcome(key, baselines[key], run[r].shot)
           pushed == [run[r] EXCEPT !.results = Append(@, outcome)]
       IN IF baselines[key] = NoFile
            THEN run' = [run EXCEPT ![r].pc = "create"]
            ELSE IF readOk
              THEN run' = [run EXCEPT ![r] =
                     IF outcome.shouldUpdateBaseline
                       THEN [pushed EXCEPT !.pc = "save"]
                       ELSE NextMonth(pushed)]
              ELSE run' = [run EXCEPT ![r] = PeriodFailed(@, "read failed")]
  /\ UNCHANGED <<call, invocations, now, baselines, notificationLog, deliveredOn>>

\* compareWithBaseline, lines 780-816: read the baseline and compare; the
\* outcome is pushed (lines 153-157); any failure goes to the catch
Compare(r) ==
  /\ run[r].pc = "compare"
  /\ obs' = [obs EXCEPT ![r].baselineReads = @ + 1]
  /\ \E readOk \in BOOLEAN :
       LET key == MonthsToCheck[run[r].idx]
           outcome == ComparedOutcome(key, baselines[key], run[r].shot)
           pushed == [run[r] EXCEPT !.results = Append(@, outcome)]
       IN IF readOk /\ baselines[key] # NoFile
            THEN run' = [run EXCEPT ![r] =
                   IF outcome.shouldUpdateBaseline
                     THEN [pushed EXCEPT !.pc = "save"]
                     ELSE NextMonth(pushed)]
            ELSE run' = [run EXCEPT ![r].pc = "create"]
  /\ UNCHANGED <<call, invocations, now, baselines, notificationLog, deliveredOn>>

\* mutant: the created baseline is reported with shouldUpdateBaseline, so
\* runMonitor saves it a second time
CreateBaseline_SavesAgain(r) ==
  /\ run[r].pc = "create"
  /\ LET key == MonthsToCheck[run[r].idx]
     IN \E writeOk \in BOOLEAN :
          IF writeOk
            THEN /\ baselines' = saveBaseline(baselines, key, run[r].shot)
                 /\ obs' = [obs EXCEPT ![r].baselineWrites = @ + 1]
                 /\ run' = [run EXCEPT ![r].results = Append(@, CreatedOutcome(key)),
                                       ![r].pc = "save"]
            ELSE /\ run' = [run EXCEPT ![r] = PeriodFailed(@, WriteError)]
                 /\ UNCHANGED <<baselines, obs>>
  /\ UNCHANGED <<call, invocations, now, notificationLog, deliveredOn>>

\* compareWithBaseline, lines 818-828: the catch creates the baseline; a
\* failing write is thrown to the period loop's catch
CreateBaseline(r) ==
  /\ run[r].pc = "create"
  /\ LET key == MonthsToCheck[run[r].idx]
     IN \E writeOk \in BOOLEAN :
          IF writeOk
            THEN /\ baselines' = saveBaseline(baselines, key, run[r].shot)
                 /\ obs' = [obs EXCEPT ![r].baselineWrites = @ + 1]
                 /\ run' = [run EXCEPT ![r] =
                      NextMonth([@ EXCEPT !.results = Append(@, CreatedOutcome(key))])]
            ELSE /\ run' = [run EXCEPT ![r] = PeriodFailed(@, WriteError)]
                 /\ UNCHANGED <<baselines, obs>>
  /\ UNCHANGED <<call, invocations, now, notificationLog, deliveredOn>>

\* mutant: the screenshot is stored under every period key
SaveBaseline_WritesAll(r) ==
  /\ run[r].pc = "save"
  /\ \E writeOk \in BOOLEAN :
       IF writeOk
         THEN /\ baselines' = [k \in Keys |-> run[r].shot]
              /\ obs' = [obs EXCEPT ![r].baselineWrites = @ + 1]
              /\ run' = [run EXCEPT ![r] = NextMonth(@)]
         ELSE /\ run' = [run EXCEPT ![r] = PeriodFailed(@, WriteError)]
              /\ UNCHANGED <<baselines, obs>>
  /\ UNCHANGED <<call, invocations, now, notificationLog, deliveredOn>>

\* runMonitor, lines 159-161: the baseline is replaced after a significant
\* change; a failing write is caught by the period loop
SaveBaseline(r) ==
  /\ run[r].pc = "save"
  /\ LET key == MonthsToCheck[run[r].idx]
     IN \E writeOk \in BOOLEAN :
          IF writeOk
            THEN /\ baselines' = saveBaseline(baselines, key, run[r].shot)
                 /\ obs' = [obs EXCEPT ![r].baselineWrites = @ + 1]
                 /\ run' = [run EXCEPT ![r] = NextMonth(@)]
            ELSE /\ run' = [run EXCEPT ![r] = PeriodFailed(@, WriteError)]
                 /\ UNCHANGED <<baselines, obs>>
  /\ UNCHANGED <<call, invocations, now, notificationLog, deliveredOn>>

\* mutant: the handler calls sendWebhookNotification whatever the run found
Summarize_AlwaysSends(r) ==
  /\ run[r].pc = "summarize"
  /\ run' = [run EXCEPT ![r].browser = "closed", ![r].pc = "check"]
  /\ obs' = [obs EXCEPT ![r].closes = @ + 1]
  /\ UNCHANGED <<call, invocations, now, baselines, notificationLog, deliveredOn>>

\* runMonitor, lines 180-209, and handler, lines 45-48: the summary is
\* built, the browser closed, and the webhook attempted if a month changed
Summarize(r) ==
  /\ run[r].pc = "summarize"
  /\ run' = [run EXCEPT ![r].browser = "closed",
                        ![r].pc = IF Len(changedMonths(run[r].results)) > 0
                                    THEN "check" ELSE "respond"]
  /\ obs' = [obs EXCEPT ![r].closes = @ + 1]
  /\ UNCHANGED <<call, invocations, now, baselines, notificationLog, deliveredOn>>

\* mutant: checkNotificationLimit waits while another invocation is between
\* its own check and the write of its record
CheckLimit_Serialised(r) ==
  /\ run[r].pc = "check"
  /\ \A q \in Runs \ {r} : run[q].pc \notin {"post", "logRead", "logWrite"}
  /\ obs' = [obs EXCEPT ![r].logReads = @ + 1,
                        ![r].todayAtCheck = Len(todayNotifications(notificationLog))]
  /\ \E readOk \in BOOLEAN :
       LET canNotify == checkNotificationLimit(readOk)
       IN run' = [run EXCEPT ![r].canNotify = canNotify,
                             ![r].pc = IF canNotify THEN "post" ELSE "respond"]
  /\ UNCHANGED <<call, invocations, now, baselines, notificationLog, deliveredOn>>

\* sendWebhookNotification, lines 953-959
CheckLimit(r) ==
  /\ run[r].pc = "check"
  /\ obs' = [obs EXCEPT ![r].logReads = @ + 1,
                        ![r].todayAtCheck = Len(todayNotifications(notificationLog))]
  /\ \E readOk \in BOOLEAN :
       LET canNotify == checkNotificationLimit(readOk)
       IN run' = [run EXCEPT ![r].canNotify = canNotify,
                             ![r].pc = IF canNotify THEN "post" ELSE "respond"]
  /\ UNCHANGED <<call, invocations, now, baselines, notificationLog, deliveredOn>>

\* mutant: the notification is logged whatever the POST answered
Post_LogsUndelivered(r) ==
  /\ run[r].pc = "post"
  /\ \E answer \in {"ok", "non2xx", "throw"} :
       /\ run' = [run EXCEPT ![r].pc = "logRead"]
       /\ IF answer = "ok"
            THEN /\ obs' = [obs EXCEPT ![r].posts = @ + 1, ![r].delivered = @ + 1]
                 /\ deliveredOn' = [deliveredOn EXCEPT ![DateString(now)] = @ + 1]
            ELSE /\ obs' = [obs EXCEPT ![r].posts = @ + 1]
                 /\ UNCHANGED deliveredOn
  /\ UNCHANGED <<call, invocations, now, baselines, notificationLog>>

\* mutant: a failed POST is tried once more
Post_Retries(r) ==
  /\ run[r].pc = "post"
  /\ \E answer \in {"ok", "non2xx", "throw"} :
       IF answer = "ok"
         THEN /\ run' = [run EXCEPT ![r].pc = "logRead"]
              /\ obs' = [obs EXCEPT ![r].posts = @ + 1, ![r].delivered = @ + 1]
              /\ deliveredOn' = [deliveredOn EXCEPT ![DateString(now)] = @ + 1]
         ELSE /\ run' = [run EXCEPT ![r].pc = IF obs[r].posts = 0 THEN "post" ELSE "respond"]
              /\ obs' = [obs EXCEPT ![r].posts = @ + 1]
              /\ UNCHANGED deliveredOn
  /\ UNCHANGED <<call, invocations, now, baselines, notificationLog>>

\* mutant: an exception of the POST escapes to the handler's catch
Post_ThrowEscapes(r) ==
  /\ run[r].pc = "post"
  /\ \E answer \in {"ok", "non2xx", "throw"} :
       IF answer = "ok"
         THEN /\ run' = [run EXCEPT ![r].pc = "logRead"]
              /\ obs' = [obs EXCEPT ![r].posts = @ + 1, ![r].delivered = @ + 1]
              /\ deliveredOn' = [deliveredOn EXCEPT ![DateString(now)] = @ + 1]
         ELSE /\ run' = [run EXCEPT ![r].pc = IF answer = "throw" THEN "done" ELSE "respond",
                                    ![r].response =
                                      IF answer = "throw" THEN [status |-> 500] ELSE @]
              /\ obs' = [obs EXCEPT ![r].posts = @ + 1]
              /\ UNCHANGED deliveredOn
  /\ UNCHANGED <<call, invocations, now, baselines, notificationLog>>

\* sendWebhookNotification, lines 985-1004: the POST and its answer
Post(r) ==
  /\ run[r].pc = "post"
  /\ \E answer \in {"ok", "non2xx", "throw"} :
       IF answer = "ok"
         THEN /\ run' = [run EXCEPT ![r].pc = "logRead"]
              /\ obs' = [obs EXCEPT ![r].posts = @ + 1, ![r].delivered = @ + 1]
              /\ deliveredOn' = [deliveredOn EXCEPT ![DateString(now)] = @ + 1]
         ELSE /\ run' = [run EXCEPT ![r].pc = "respond"]
              /\ obs' = [obs EXCEPT ![r].posts = @ + 1]
              /\ UNCHANGED deliveredOn
  /\ UNCHANGED <<call, invocations, now, baselines, notificationLog>>

\* logNotification, lines 1036-1054: read, push, prune
LogRead(r) ==
  /\ run[r].pc = "logRead"
  /\ obs' = [obs EXCEPT ![r].logReads = @ + 1]
  /\ \E readOk \in BOOLEAN :
       run' = [run EXCEPT ![r].logBuf = logNotificationBuffer(readOk),
                          ![r].pc = "logWrite"]
  /\ UNCHANGED <<call, invocations, now, baselines, notificationLog, deliveredOn>>

\* logNotification, lines 1056-1060: persist; a failing write is swallowed
LogWrite(r) ==
  /\ run[r].pc = "logWrite"
  /\ \E writeOk \in BOOLEAN :
       IF writeOk
         THEN /\ notificationLog' = run[r].logBuf
              /\ obs' = [obs EXCEPT ![r].logWrites = @ + 1]
         ELSE UNCHANGED <<notificationLog, obs>>
  /\ run' = [run EXCEPT ![r].logBuf = <<>>, ![r].pc = "respond"]
  /\ UNCHANGED <<call, invocations, now, baselines, deliveredOn>>

\* handler, lines 50-59: the 200 response
Respond(r) ==
  /\ run[r].pc = "respond"
  /\ run' = [run EXCEPT ![r].pc = "done",
                        ![r].response =
                          [status |-> 200, success |-> TRUE,
                           monthsChecked |-> Len(run[r].results),
                           changedMonths |-> Len(changedMonths(run[r].results)),
                           webhookSent |-> webhookSent(run[r].results)]]
  /\ UNCHANGED <<call, invocations, now, baselines, notificationLog, obs, deliveredOn>>

\* time passes
Tick ==
  /\ now < MaxTime
  /\ now' = now + 1
  /\ UNCHANGED <<call, invocations, baselines, notificationLog, run, obs, deliveredOn>>

\* one invocation at a time (the deployment runs with concurrency 1)
Arrive == \E m \in Methods, c \in BOOLEAN : NoRunActive /\ Request(1, m, c)

Step(r) ==
  \/ Launch(r)
  \/ Login(r)
  \/ Capture(r)
  \/ Compare(r)
  \/ CreateBaseline(r)
  \/ SaveBaseline(r)
  \/ Summarize(r)
  \/ CheckLimit(r)
  \/ Post(r)
  \/ LogRead(r)
  \/ LogWrite(r)
  \/ Respond(r)

Next == Arrive \/ (\E r \in Runs : Step(r)) \/ Tick

Spec == Init /\ [][Next]_vars

\* ------------------------------------------- direct calls of pure functions
\* the monitor's own state while a function is called on its own
mainVars == <<now, baselines, notificationLog, run, invocations, obs, deliveredOn>>

NoMonitor ==
  /\ now = 0
  /\ baselines = [k \in Keys |-> NoFile]
  /\ notificationLog = <<>>
  /\ deliveredOn = [d \in Days |-> 0]
  /\ run = [r \in Runs |-> IdleRun]
  /\ invocations = 0
  /\ obs = [r \in Runs |-> NoObs]

\* ---- performVisualComparison(baselineBuffer, currentBuffer) on its own
MaxPixels == 1        \* pixels chosen freely at the head of a buffer
PadPixels == 49       \* pixels of one colour that may follow them
BytesPerPixel == 4

\* pixels: highlight rule 1, rule 3 (and the neutral availability band),
\* rule 2, and one that is neither highlight nor availability
White == <<255, 255, 255, 255>>
Neutral == <<225, 225, 220, 255>>
Blue == <<160, 180, 210, 255>>
Red == <<200, 50, 50, 255>>
Palette == {White, Neutral, Blue, Red, Dark, Tan}

RECURSIVE Repeat(_, _)
Repeat(pixel, n) == IF n = 0 THEN <<>> ELSE pixel \o Repeat(pixel, n - 1)

RECURSIVE HeadsOf(_)
HeadsOf(n) == IF n = 0 THEN {<<>>} ELSE {h \o p : h \in HeadsOf(n - 1), p \in Palette}

\* the end of a buffer: a whole pixel, or one cut off before its last byte
Tails == {<<>>, SubSeq(Dark, 1, BytesPerPixel - 1)}

\* buffers: free pixels, padding, and a cut-off pixel
Buffers(pad) ==
  {h \o Repeat(Dark, pad) \o t :
     h \in UNION {HeadsOf(n) : n \in 0..MaxPixels}, t \in Tails}

InitCompare ==
  /\ NoMonitor
  /\ \E pad \in {0, PadPixels} :
       \E b \in Buffers(pad), c \in Buffers(pad) :
         call = [fn |-> "performVisualComparison",
                 baselineBuffer |-> b, currentBuffer |-> c,
                 returned |-> FALSE, tampered |-> FALSE,
                 comparison |-> <<>>, outcome |-> <<>>]

\* compareWithBaseline, lines 792-816: the comparison and the flags derived
CallCompare ==
  /\ call.fn = "performVisualComparison"
  /\ ~call.returned
  /\ call' = [call EXCEPT
       !.returned = TRUE,
       !.comparison = performVisualComparison(call.baselineBuffer, call.currentBuffer),
       !.outcome = ComparedOutcome(MonthsToCheck[1], call.baselineBuffer, call.currentBuffer)]
  /\ UNCHANGED mainVars

\* after the call, the bytes of the longer buffer beyond the common prefix
\* (lines 838-842) are dropped, changed, or followed by a further pixel
TamperBeyond ==
  /\ call.fn = "performVisualComparison"
  /\ call.returned /\ ~call.tampered
  /\ LET b == call.baselineBuffer
         c == call.currentBuffer
         minLength == Min(Len(b), Len(c))
         Beyond(x) ==
           LET excess == SubSeq(x, minLength + 1, Len(x))
               changed == [i \in 1..Len(excess) |-> 255 - excess[i]]
           IN {SubSeq(x, 1, minLength) \o e : e \in {<<>>, changed, excess \o Tan}}
     IN \/ /\ Len(b) >= Len(c)
           /\ \E x \in Beyond(b) :
                call' = [call EXCEPT !.baselineBuffer = x, !.tampered = TRUE]
        \/ /\ Len(c) >= Len(b)
           /\ \E x \in Beyond(c) :
                call' = [call EXCEPT !.currentBuffer = x, !.tampered = TRUE]
  /\ UNCHANGED mainVars

NextCompare == CallCompare \/ TamperBeyond

SpecCompare == InitCompare /\ [][NextCompare]_vars

\* ---- validateMonthWithTextExtraction(page, expectedMonth, expectedYear):
\* the analysis of the extracted text (lines 346-394) on its own.  A text
\* is a sequence of words separated by white space; confidence is counted
\* in tenths.
MaxWords == 5         \* words of the extracted text

Words == {"JULY", "Jul", "2025", "August", "September", "October"}
ExpectedMonths == {"July", "any"}
ExpectedYear == 2025

Texts == UNION {[1..n -> Words] : n \in 0..MaxWords}

\* String.prototype.toLowerCase on the words that occur
toLowerCase(w) ==
  CASE w = "JULY" -> "july"
    [] w = "July" -> "july"
    [] w = "Jul" -> "jul"
    [] w = "August" -> "august"
    [] w = "September" -> "september"
    [] w = "October" -> "october"
    [] w = "November" -> "november"
    [] w = "December" -> "december"
    [] w = "January" -> "january"
    [] w = "Loading" -> "loading"
    [] OTHER -> w

\* expectedMonth.substring(0, 3)
substring3(w) ==
  CASE w = "July" -> "Jul"
    [] w = "october" -> "oct"
    [] w = "january" -> "jan"
    [] OTHER -> w

\* expectedYear.toString()
toString(year) ==
  CASE year = 2024 -> "2024"
    [] year = 2025 -> "2025"
    [] year = 2026 -> "2026"
    [] OTHER -> "0"

monthNames ==
  {"january", "february", "march", "april", "may", "june",
   "july", "august", "september", "october", "november", "december"}

\* textLower.includes(word), for a whole word
includesLower(allText, word) == \E i \in DOMAIN allText : toLowerCase(allText[i]) = word

\* a word followed, after white space, by another (both lower-cased)
followedBy(allText, first, second) ==
  \E i \in 1..(Len(allText) - 1) :
    toLowerCase(allText[i]) = first /\ toLowerCase(allText[i + 1]) = second

\* mutant: several other months cost nothing
rawConfidence_NoPenalty(hasExpectedMonth, hasExpectedYear, hasExactPattern, otherMonths) ==
  (IF hasExpectedMonth THEN 4 ELSE 0)
    + (IF hasExpectedYear THEN 3 ELSE 0)
    + (IF hasExactPattern THEN 4 ELSE 0)
    + (IF otherMonths = 0 THEN 2 ELSE 0)

\* lines 369-374: the score before it is clamped
rawConfidence(hasExpectedMonth, hasExpectedYear, hasExactPattern, otherMonths) ==
  (IF hasExpectedMonth THEN 4 ELSE 0)
    + (IF hasExpectedYear THEN 3 ELSE 0)
    + (IF hasExactPattern THEN 4 ELSE 0)
    + (IF otherMonths = 0 THEN 2 ELSE 0)
    - (IF otherMonths > 2 THEN 3 ELSE 0)

Max(a, b) == IF a > b THEN a ELSE b

validateMonthWithTextExtraction(allText, expectedMonth, expectedYear) ==
  LET month == toLowerCase(expectedMonth)
      year == toString(expectedYear)
      hasExpectedMonth == expectedMonth = "any" \/ includesLower(allText, month)
      hasExpectedYear == \E i \in DOMAIN allText : allText[i] = year
      otherMonths ==
        IF expectedMonth = "any" THEN {}
        ELSE {m \in monthNames : m # month /\ includesLower(allText, m)}
      hasExactPattern ==
        \/ expectedMonth = "any"
        \/ followedBy(allText, month, year)
        \/ followedBy(allText, year, month)
        \/ followedBy(allText, toLowerCase(substring3(expectedMonth)), year)
      confidence ==
        rawConfidence(hasExpectedMonth, hasExpectedYear, hasExactPattern,
                      Cardinality(otherMonths))
  IN [confidence |-> Min(Max(confidence, 0), 10),
      detectedMonth |-> IF hasExpectedMonth THEN expectedMonth ELSE "not_found",
      detectedYear |-> IF hasExpectedYear THEN expectedYear ELSE 0,
      hasExactPattern |-> hasExactPattern,
      otherMonthsFound |-> Cardinality(otherMonths),
      extractedTextLength |-> Len(allText)]

InitConfidence ==
  /\ NoMonitor
  /\ \E t \in Texts, m \in ExpectedMonths :
       call = [fn |-> "validateMonthWithTextExtraction",
               allText |-> t, expectedMonth |-> m, expectedYear |-> ExpectedYear,
               returned |-> FALSE, result |-> <<>>]

CallValidate ==
  /\ call.fn = "validateMonthWithTextExtraction"
  /\ ~call.returned
  /\ call' = [call EXCEPT
       !.returned = TRUE,
       !.result = validateMonthWithTextExtraction(call.allText, call.expectedMonth,
                                                  call.expectedYear)]
  /\ UNCHANGED mainVars

NextConfidence == CallValidate

SpecConfidence == InitConfidence /\ [][NextConfidence]_vars

\* ---- getMonthsToCheck() on its own, for every instant of some years.
\* A Date is a record of year, month (0-based, as getMonth) , day and the
\* tick within the day; getTime counts ticks since the first modelled year.
FirstYear == 2024     \* the year of the earliest instant
MaxYears == 2         \* years the clock may show
NINETY_DAYS == 90 * TicksPerDay   \* 90 * 24 * 60 * 60 * 1000 ms

IsLeapYear(y) == (y % 4 = 0 /\ y % 100 # 0) \/ y % 400 = 0

DaysInMonth(y, m) ==
  IF m \in {0, 2, 4, 6, 7, 9, 11} THEN 31
  ELSE IF m \in {3, 5, 8, 10} THEN 30
  ELSE IF IsLeapYear(y) THEN 29 ELSE 28

RECURSIVE DaysBeforeYear(_)
DaysBeforeYear(y) ==
  IF y <= FirstYear THEN 0
  ELSE DaysBeforeYear(y - 1) + (IF IsLeapYear(y - 1) THEN 366 ELSE 365)

RECURSIVE DaysBeforeMonth(_, _)
DaysBeforeMonth(y, m) ==
  IF m = 0 THEN 0 ELSE DaysBeforeMonth(y, m - 1) + DaysInMonth(y, m - 1)

\* Date.prototype.getTime
getTime(date) ==
  (DaysBeforeYear(date.year) + DaysBeforeMonth(date.year, date.month) + date.day - 1)
    * TicksPerDay + date.tick

\* new Date(year, month, 1)
FirstOfMonth(year, month) == [year |-> year, month |-> month, day |-> 1, tick |-> 0]

\* currentDate.setMonth(month) for a date on the first of a month
setMonth(currentDate, month) ==
  IF month > 11
    THEN FirstOfMonth(currentDate.year + 1, month - 12)
    ELSE FirstOfMonth(currentDate.year, month)

\* the characters of the period key: getFullYear(), "-", and
\* String(getMonth() + 1).padStart(2, '0')
Digit(d) ==
  CASE d = 0 -> "0" [] d = 1 -> "1" [] d = 2 -> "2" [] d = 3 -> "3" [] d = 4 -> "4"
    [] d = 5 -> "5" [] d = 6 -> "6" [] d = 7 -> "7" [] d = 8 -> "8" [] d = 9 -> "9"

RECURSIVE String(_)
String(n) == IF n < 10 THEN <<Digit(n)>> ELSE Append(String(n \div 10), Digit(n % 10))

padStart2(chars) == IF Len(chars) < 2 THEN <<"0">> \o chars ELSE chars

monthData(currentDate) ==
  [key |-> String(currentDate.year) \o <<"-">> \o padStart2(String(currentDate.month + 1)),
   month |-> currentDate.month + 1,
   year |-> currentDate.year]

\* mutant: the loop stops after three months
RECURSIVE monthsLoop_ThreeMonths(_, _, _)
monthsLoop_ThreeMonths(currentDate, ninetyDaysFromNow, months) ==
  IF Len(months) < 3
    THEN monthsLoop_ThreeMonths(setMonth(currentDate, currentDate.month + 1),
                                ninetyDaysFromNow, Append(months, monthData(currentDate)))
    ELSE months

\* the while loop of lines 759-772
RECURSIVE monthsLoop(_, _, _)
monthsLoop(currentDate, ninetyDaysFromNow, months) ==
  IF getTime(currentDate) <= ninetyDaysFromNow
    THEN monthsLoop(setMonth(currentDate, currentDate.month + 1),
                    ninetyDaysFromNow, Append(months, monthData(currentDate)))
    ELSE months

\* mutant: the horizon is 180 days
getMonthsToCheck_HalfYear(date) ==
  monthsLoop(FirstOfMonth(date.year, date.month), getTime(date) + 2 * NINETY_DAYS, <<>>)

getMonthsToCheck(date) ==
  monthsLoop(FirstOfMonth(date.year, date.month), getTime(date) + NINETY_DAYS, <<>>)

Instants ==
  {[year |-> y, month |-> m, day |-> d, tick |-> t] :
     y \in FirstYear..(FirstYear + MaxYears - 1), m \in 0..11,
     d \in 1..31, t \in 0..(TicksPerDay - 1)}

InitMonths ==
  /\ NoMonitor
  /\ \E date \in Instants :
       /\ date.day <= DaysInMonth(date.year, date.month)
       /\ call = [fn |-> "getMonthsToCheck", date |-> date,
                  returned |-> FALSE, months |-> <<>>]

CallGetMonths ==
  /\ call.fn = "getMonthsToCheck"
  /\ ~call.returned
  /\ call' = [call EXCEPT !.returned = TRUE, !.months = getMonthsToCheck(call.date)]
  /\ UNCHANGED mainVars

NextMonths == CallGetMonths

SpecMonths == InitMonths /\ [][NextMonths]_vars

\* ------------------------------------------------- two overlapping handlers
\* Two invocations of handler whose runMonitor calls overlapped: both
\* compared each month against the Dark baseline before either replaced it,
\* so both hold outcomes with shouldNotify, and both are about to leave
\* runMonitor.  The log holds the records of the webhooks delivered earlier
\* on the same day.  (With both invocations admitted at once, this state is
\* reached from baselines that are all Dark by two failure-free runs whose
\* comparisons all come before the first saveBaseline.)
OverlapResults ==
  [i \in DOMAIN MonthsToCheck |-> ComparedOutcome(MonthsToCheck[i], Dark, Tan)]

InitOverlap ==
  /\ now = 0
  /\ baselines = [k \in Keys |-> Tan]
  /\ \E n \in 0..(MAX_DAILY_NOTIFICATIONS - 1) :
       /\ notificationLog = [i \in 1..n |-> [timestamp |-> 0, type |-> "availability_change"]]
       /\ deliveredOn = [d \in Days |-> IF d = 0 THEN n ELSE 0]
  /\ run = [r \in Runs |->
       [IdleRun EXCEPT !.pc = "summarize", !.method = "POST", !.credentials = TRUE,
                       !.browser = "open", !.loggedIn = TRUE,
                       !.results = OverlapResults]]
  /\ invocations = Cardinality(Runs)
  /\ obs = [r \in Runs |->
       [NoObs EXCEPT !.launches = 1, !.baselineReads = Len(MonthsToCheck),
                     !.baselineWrites = Len(MonthsToCheck)]]
  /\ call = NoCall

\* handler after runMonitor, for each of the two invocations
NextOverlap ==
  \/ \E r \in Runs : \/ Summarize(r)
                     \/ CheckLimit(r)
                     \/ Post(r)
                     \/ LogRead(r)
                     \/ LogWrite(r)
                     \/ Respond(r)
  \/ Tick

SpecOverlap == InitOverlap /\ [][NextOverlap]_vars

\* ----------------------------------------------------------- navigateToMonth
\* navigateToMonth(page, monthData) on its own.  The page is not under the
\* program's control: every textContent returns any of PageTexts or throws,
\* every screenshot succeeds or throws, and a navigation control is visible
\* or not, independently at each call.
MAX_ATTEMPTS == 12        \* attempts < 12
BUTTON_SELECTORS == 5     \* buttonSelectors.length

\* the monthNames arrays
MonthList ==
  <<"january", "february", "march", "april", "may", "june",
    "july", "august", "september", "october", "november", "december">>

MonthDatas == {[month |-> 10, year |-> 2025], [month |-> 1, year |-> 2026]}

\* texts the page shows, as words separated by white space; <<>> is the
\* empty text
PageTexts ==
  {<<>>,
   <<"Loading">>,
   <<"October", "2025">>,
   <<"2025", "October">>,
   <<"September", "2025">>,
   <<"November", "2025">>,
   <<"December", "2024">>,
   <<"January", "2026">>,
   <<"September", "2025", "October", "2025">>}

\* parseInt of a word
parseInt(word) ==
  CASE word = "2024" -> 2024
    [] word = "2025" -> 2025
    [] word = "2026" -> 2026
    [] OTHER -> NaN

isNaN(n) == n = NaN

\* the word matches \d{4}
IsYear(word) == ~isNaN(parseInt(word))

UnknownMonth == [month |-> "unknown", year |-> 0]

\* lines 214-241.  On words, the patterns 1, 2 and 4 match the leftmost
\* word that is followed by four digits, and pattern 3 the leftmost four
\* digits followed by a word; the patterns are tried in this order.
parseMonthHeader(headerText) ==
  LET wordThenYear == {i \in 1..(Len(headerText) - 1) : IsYear(headerText[i + 1])}
      yearThenWord == {i \in 1..(Len(headerText) - 1) : IsYear(headerText[i])}
      matches == IF wordThenYear # {} THEN wordThenYear ELSE yearThenWord
  IN IF headerText = <<>> \/ matches = {}
       THEN UnknownMonth
       ELSE LET at == CHOOSE i \in matches : \A j \in matches : i <= j
                first == headerText[at]
                second == headerText[at + 1]
                isFirstMonth == isNaN(parseInt(first))
            IN [month |-> IF isFirstMonth THEN toLowerCase(first) ELSE toLowerCase(second),
                year |-> parseInt(IF isFirstMonth THEN second ELSE first)]

\* monthNames.indexOf(month)
indexOf(month) ==
  IF \E i \in DOMAIN MonthList : MonthList[i] = month
    THEN (CHOOSE i \in DOMAIN MonthList : MonthList[i] = month) - 1
    ELSE -1

\* mutant: the months are compared before the years
calculateNavigationDirection_MonthFirst(current, target) ==
  IF current.month = target.month /\ current.year = target.year THEN "already_there"
  ELSE IF indexOf(current.month) < indexOf(target.month) THEN "forward"
  ELSE IF indexOf(current.month) > indexOf(target.month) THEN "backward"
  ELSE IF current.year < target.year THEN "forward"
  ELSE "backward"

\* lines 243-263
calculateNavigationDirection(current, target) ==
  IF current.month = target.month /\ current.year = target.year THEN "already_there"
  ELSE IF current.year < target.year THEN "forward"
  ELSE IF current.year > target.year THEN "backward"
  ELSE IF indexOf(current.month) < indexOf(target.month) THEN "forward"
  ELSE "backward"

\* lines 566-584: match[0] for the first month of monthNames that stands
\* next to four digits somewhere in the text; <<>> when there is none
monthYearAt(extractedText, month) ==
  {i \in 1..(Len(extractedText) - 1) :
     \/ toLowerCase(extractedText[i]) = month /\ IsYear(extractedText[i + 1])
     \/ IsYear(extractedText[i]) /\ toLowerCase(extractedText[i + 1]) = month}

firstMonthYear(extractedText) ==
  LET found == {m \in DOMAIN MonthList : monthYearAt(extractedText, MonthList[m]) # {}}
  IN IF found = {} THEN <<>>
     ELSE LET m == CHOOSE x \in found : \A y \in found : x <= y
              at == monthYearAt(extractedText, MonthList[m])
              i == CHOOSE x \in at : \A y \in at : x <= y
          IN SubSeq(extractedText, i, i + 1)

\* parsedTarget of line 634
parsedTarget(target) == [month |-> MonthList[target.month], year |-> target.year]

\* textConfirm.confidence > 0.8 (line 661) and textSuccess (lines 729-731)
textSuccess(allText, target) ==
  LET extraction == validateMonthWithTextExtraction(allText, MonthList[target.month],
                                                    target.year)
  IN /\ extraction.confidence > 8
     /\ extraction.detectedMonth = MonthList[target.month]
     /\ extraction.detectedYear = target.year

\* clickNavigationButton, lines 265-286: the selectors are tried in order;
\* the first visible control whose click succeeds ends the call
clickNavigationButton(controls) == \E i \in DOMAIN controls : controls[i] = "clicked"

\* what the deciding check of a call saw: the check inside a pass (lines
\* 659-672) or the final one (lines 727-743)
NoVerdict ==
  [stage |-> "none", headerSuccess |-> FALSE, textSuccess |-> FALSE,
   hasValidDates |-> FALSE]

InitNavigate ==
  /\ NoMonitor
  /\ \E target \in MonthDatas :
       call = [fn |-> "navigateToMonth", monthData |-> target, pc |-> "start",
               workingSelector |-> "", currentMonthText |-> <<>>,
               attempts |-> 0, clicks |-> 0,
               parsedCurrent |-> UnknownMonth, navigationDirection |-> "",
               clickSuccess |-> TRUE, error |-> "", screenshot |-> FALSE,
               verdict |-> NoVerdict]

Navigating == call.fn = "navigateToMonth"

\* an exception leaves navigateToMonth
Throw(c, error) ==
  [c EXCEPT !.pc = "thrown", !.error = error,
            !.parsedCurrent = UnknownMonth, !.navigationDirection = ""]

\* the end of one pass of the for loop of line 626: attempts++ and the test
NextAttempt(c) ==
  [c EXCEPT !.attempts = c.attempts + 1,
            !.pc = IF c.attempts + 1 < MAX_ATTEMPTS THEN "loop" ELSE "final",
            !.parsedCurrent = UnknownMonth, !.navigationDirection = ""]

\* mutant: a failed attempt is not counted
AttemptFailed_NotCounted(c) ==
  [c EXCEPT !.pc = "loop", !.parsedCurrent = UnknownMonth, !.navigationDirection = ""]

\* the catch of lines 705-710: the error screenshot, whose failure is
\* swallowed, and the next pass
AttemptFailed(c) == NextAttempt(c)

\* line 548: the screenshot of the starting state
NavStart ==
  /\ Navigating /\ call.pc = "start"
  /\ \E ok \in BOOLEAN :
       call' = IF ok THEN [call EXCEPT !.pc = "detect"] ELSE Throw(call, "screenshot")
  /\ UNCHANGED mainVars

\* lines 551-585: the text of the calendar area is extracted, read again
\* from the selector that gave it, and searched for a month and a year
NavDetect ==
  /\ Navigating /\ call.pc = "detect"
  /\ \E allText \in PageTexts, read \in {"text", "null", "throws"}, extractedText \in PageTexts :
       call' =
         IF Len(allText) = 0 THEN [call EXCEPT !.pc = "fallback"]
         ELSE IF read # "text" THEN Throw(call, "textContent")
         ELSE IF firstMonthYear(extractedText) # <<>>
           THEN [call EXCEPT !.pc = "loop", !.workingSelector = "calendar",
                             !.currentMonthText = firstMonthYear(extractedText)]
         ELSE [call EXCEPT !.pc = "fallback"]
  /\ UNCHANGED mainVars

\* mutant: the loop is entered without a header
NavFallback_EntersLoop ==
  /\ Navigating /\ call.pc = "fallback"
  /\ \E text \in PageTexts :
       call' = IF text # <<>>
                 THEN [call EXCEPT !.pc = "loop", !.workingSelector = "header",
                                   !.currentMonthText = text]
                 ELSE [call EXCEPT !.pc = "loop"]
  /\ UNCHANGED mainVars

\* lines 588-620: the header selectors are tried; text is what the first
\* selector with a non-blank text gave, <<>> when every selector failed or
\* was blank
NavFallback ==
  /\ Navigating /\ call.pc = "fallback"
  /\ \E text \in PageTexts :
       call' = IF text # <<>>
                 THEN [call EXCEPT !.pc = "loop", !.workingSelector = "header",
                                   !.currentMonthText = text]
                 ELSE Throw(call, "cannot_detect")
  /\ UNCHANGED mainVars

\* lines 629-640 and 684: the header is read and parsed
NavReadHeader ==
  /\ Navigating /\ call.pc = "loop"
  /\ \E read \in {"text", "throws"}, monthHeaderText \in PageTexts :
       call' =
         IF read = "throws" THEN AttemptFailed(call)
         ELSE LET parsedCurrent == parseMonthHeader(monthHeaderText)
                  target == parsedTarget(call.monthData)
              IN IF parsedCurrent = target
                   THEN [call EXCEPT !.pc = "verify", !.parsedCurrent = parsedCurrent]
                   ELSE [call EXCEPT !.pc = "click", !.parsedCurrent = parsedCurrent,
                                     !.navigationDirection =
                                       calculateNavigationDirection(parsedCurrent, target)]
  /\ UNCHANGED mainVars

\* lines 640-680: the header is read again, a screenshot taken, the text
\* extracted and the date cells counted
NavVerify ==
  /\ Navigating /\ call.pc = "verify"
  /\ \E read \in {"text", "throws"}, doubleCheck \in PageTexts, shot \in BOOLEAN,
        allText \in PageTexts, hasValidDates \in BOOLEAN :
       call' =
         IF read = "throws" \/ ~shot THEN AttemptFailed(call)
         ELSE IF /\ parseMonthHeader(doubleCheck) = parsedTarget(call.monthData)
                 /\ validateMonthWithTextExtraction(
                      allText, MonthList[call.monthData.month],
                      call.monthData.year).confidence > 8
                 /\ hasValidDates
           THEN [call EXCEPT !.pc = "returned", !.parsedCurrent = UnknownMonth,
                             !.verdict = [stage |-> "attempt", headerSuccess |-> TRUE,
                                          textSuccess |-> TRUE, hasValidDates |-> TRUE]]
         ELSE [call EXCEPT !.pc = "contradiction",
                           !.navigationDirection =
                             calculateNavigationDirection(call.parsedCurrent,
                                                          parsedTarget(call.monthData))]
  /\ UNCHANGED mainVars

\* lines 687-691: 'already_there' after a failed verification: the recovery
\* screenshot, then the throw, caught by the loop's own catch
NavContradiction ==
  /\ Navigating /\ call.pc = "contradiction"
  /\ \E shot \in BOOLEAN : call' = AttemptFailed(call)
  /\ UNCHANGED mainVars

\* lines 694-698: one control of the direction is clicked, or the loop is
\* left
NavClick ==
  /\ Navigating /\ call.pc = "click"
  /\ \E controls \in [1..BUTTON_SELECTORS -> {"hidden", "clicked", "throws"}] :
       call' =
         IF clickNavigationButton(controls)
           THEN [call EXCEPT !.pc = "stabilize", !.clicks = call.clicks + 1]
           ELSE [call EXCEPT !.pc = "final", !.clickSuccess = FALSE,
                             !.parsedCurrent = UnknownMonth,
                             !.navigationDirection = ""]
  /\ UNCHANGED mainVars

\* lines 701-702: waitForTimeout and waitForCalendarStability return
NavStabilize ==
  /\ Navigating /\ call.pc = "stabilize"
  /\ call' = NextAttempt(call)
  /\ UNCHANGED mainVars

\* mutant: the final verification wants both signals
NavFinal_BothRequired ==
  /\ Navigating /\ call.pc = "final"
  /\ \E read \in {"text", "throws"}, finalMonthText \in PageTexts, allText \in PageTexts,
        shot \in BOOLEAN :
       call' =
         IF read = "throws" THEN Throw(call, "textContent")
         ELSE IF ~shot THEN Throw(call, "screenshot")
         ELSE LET headerSuccess ==
                    parseMonthHeader(finalMonthText) = parsedTarget(call.monthData)
                  verdict ==
                    [stage |-> "final", headerSuccess |-> headerSuccess,
                     textSuccess |-> textSuccess(allText, call.monthData),
                     hasValidDates |-> FALSE]
              IN IF ~headerSuccess \/ ~textSuccess(allText, call.monthData)
                   THEN [Throw(call, "navigation_failed") EXCEPT !.verdict = verdict]
                   ELSE [call EXCEPT !.pc = "returned", !.verdict = verdict]
  /\ UNCHANGED mainVars

\* lines 712-748: the final verification; the date cells are not checked
NavFinal ==
  /\ Navigating /\ call.pc = "final"
  /\ \E read \in {"text", "throws"}, finalMonthText \in PageTexts, allText \in PageTexts,
        shot \in BOOLEAN :
       call' =
         IF read = "throws" THEN Throw(call, "textContent")
         ELSE IF ~shot THEN Throw(call, "screenshot")
         ELSE LET headerSuccess ==
                    parseMonthHeader(finalMonthText) = parsedTarget(call.monthData)
                  verdict ==
                    [stage |-> "final", headerSuccess |-> headerSuccess,
                     textSuccess |-> textSuccess(allText, call.monthData),
                     hasValidDates |-> FALSE]
              IN IF ~headerSuccess /\ ~textSuccess(allText, call.monthData)
                   THEN [Throw(call, "navigation_failed") EXCEPT !.verdict = verdict]
                   ELSE [call EXCEPT !.pc = "returned", !.verdict = verdict]
  /\ UNCHANGED mainVars

\* captureMonth, lines 523-536: the screenshot of the calendar, or the
\* clipped screenshot of the page
NavCapture ==
  /\ Navigating /\ call.pc = "returned"
  /\ \E shot \in BOOLEAN :
       call' = IF shot THEN [call EXCEPT !.pc = "captured", !.screenshot = TRUE]
               ELSE Throw(call, "screenshot")
  /\ UNCHANGED mainVars

NextNavigate ==
  \/ NavStart
  \/ NavDetect
  \/ NavFallback
  \/ NavReadHeader
  \/ NavVerify
  \/ NavContradiction
  \/ NavClick
  \/ NavStabilize
  \/ NavFinal
  \/ NavCapture

SpecNavigate == InitNavigate /\ [][NextNavigate]_vars

\* every step of navigateToMonth is a timer or a call on the page that
\* returns or throws within its timeout
SpecNavigateLive == SpecNavigate /\ WF_vars(NextNavigate)

\* ------------------------------------------------- waitForCalendarStability
\* waitForCalendarStability(page, headerSelector) on its own: each poll
\* reads one of HeaderTexts or fails.  lastRead and identical are not
\* variables of the program: the outcome of the latest poll, and the number
\* of latest polls in a row that read the same text.
MAX_POLLS == 10           \* i < 10
STABLE_READINGS == 3      \* stableCount >= 3

HeaderTexts == {<<>>, <<"September", "2025">>, <<"October", "2025">>}

NoRead == [ok |-> FALSE, text |-> <<>>]

InitStability ==
  /\ NoMonitor
  /\ call = [fn |-> "waitForCalendarStability", i |-> 0, previousText |-> <<>>,
             stableCount |-> 0, returned |-> FALSE,
             lastRead |-> NoRead, identical |-> 0]

\* lines 293-314: one pass of the polling loop; after the tenth the
\* function returns
PollStability ==
  /\ call.fn = "waitForCalendarStability"
  /\ ~call.returned /\ call.i < MAX_POLLS
  /\ \E ok \in BOOLEAN, currentText \in HeaderTexts :
       LET polled == [call EXCEPT !.i = call.i + 1]
           stable == call.stableCount + 1
       IN call' =
            IF ~ok
              THEN [polled EXCEPT !.returned = (polled.i = MAX_POLLS),
                                  !.lastRead = NoRead, !.identical = 0]
            ELSE LET seen == [polled EXCEPT
                       !.lastRead = [ok |-> TRUE, text |-> currentText],
                       !.identical = IF call.lastRead = [ok |-> TRUE, text |-> currentText]
                                       THEN call.identical + 1 ELSE 1]
                 IN IF currentText = call.previousText
                      THEN [seen EXCEPT !.stableCount = stable,
                                        !.returned = (stable >= STABLE_READINGS
                                                        \/ polled.i = MAX_POLLS)]
                      ELSE [seen EXCEPT !.stableCount = 0,
                                        !.previousText = currentText,
                                        !.returned = (polled.i = MAX_POLLS)]
  /\ UNCHANGED mainVars

NextStability == PollStability

SpecStability == InitStability /\ [][NextStability]_vars

\* ------------------------------------------------- logNotification on a log
\* The handler of one invocation just after its webhook was delivered, on
\* the log that earlier days and earlier runs of the day left: up to MaxLog
\* records in the order they were written, some older than seven days,
\* some of today.
MaxLog == 3           \* records in the log before the call

LogNow == TicksPerDay - 1

LogStamps ==
  {LogNow - SEVEN_DAYS - 1, LogNow - SEVEN_DAYS, LogNow - SEVEN_DAYS + 1, 0, LogNow}

Logs ==
  {log \in UNION {[1..n -> LogStamps] : n \in 0..MaxLog} :
     \A i \in 1..(Len(log) - 1) : log[i] <= log[i + 1]}

InitLog ==
  /\ now = LogNow
  /\ baselines = [k \in Keys |-> Tan]
  /\ \E log \in Logs :
       /\ notificationLog =
            [i \in DOMAIN log |-> [timestamp |-> log[i], type |-> "availability_change"]]
       /\ deliveredOn =
            [d \in Days |-> IF d = 0 THEN Len(todayNotifications(notificationLog)) + 1 ELSE 0]
       /\ obs = [r \in Runs |->
            IF r = 1
              THEN [NoObs EXCEPT !.launches = 1, !.closes = 1,
                                 !.baselineReads = Len(MonthsToCheck),
                                 !.baselineWrites = Len(MonthsToCheck),
                                 !.logReads = 1, !.posts = 1, !.delivered = 1,
                                 !.todayAtCheck = Len(todayNotifications(notificationLog))]
              ELSE NoObs]
  /\ run = [r \in Runs |->
       IF r = 1
         THEN [IdleRun EXCEPT !.pc = "logRead", !.method = "POST", !.credentials = TRUE,
                              !.browser = "closed", !.loggedIn = TRUE,
                              !.results = OverlapResults, !.canNotify = TRUE]
         ELSE IdleRun]
  /\ invocations = 1
  /\ call = NoCall

NextLog == LogRead(1) \/ LogWrite(1) \/ Respond(1)

SpecLog == InitLog /\ [][NextLog]_vars

\* ---- performVisualComparison on one pixel, its current colour drawn from
\* ---- a box around the two availability bands (lines 880-890)
Margin == 2           \* how far the box reaches beyond the bands

CurrentPixels ==
  {<<R, G, B, 255>> : R \in (210 - Margin)..(240 + Margin),
                      G \in (205 - Margin)..(240 + Margin),
                      B \in (190 - Margin)..(235 + Margin)}

\* a baseline pixel that is no availability colour, and one that is
BaselinePixels == {Dark, Tan}

InitPixel ==
  /\ NoMonitor
  /\ \E b \in BaselinePixels, c \in CurrentPixels :
       call = [fn |-> "performVisualComparison",
               baselineBuffer |-> b, currentBuffer |-> c,
               returned |-> FALSE, tampered |-> FALSE,
               comparison |-> <<>>, outcome |-> <<>>]

NextPixel == CallCompare

SpecPixel == InitPixel /\ [][NextPixel]_vars

\* ------------------------------------------------------------------ claims
RecordsOn(log, d) == Cardinality({i \in DOMAIN log : DateString(log[i].timestamp) = d})

AllPeriodsRecorded(results) ==
  \A k \in Keys : \E i \in DOMAIN results : results[i].month = k

Finished(r) == run[r].pc = "done" /\ run[r].method = "POST"

\* C1: over non-overlapping invocations, at most 2 webhooks are delivered
\* (answered 2xx) on any one calendar day.
C1_DailyDeliveryCap ==
  \A d \in Days : deliveredOn[d] <= MAX_DAILY_NOTIFICATIONS

\* C2: once logNotification has written the log after a delivered webhook,
\* the persisted log holds at most MAX_DAILY_NOTIFICATIONS records of any
\* one calendar day.
C2_LogDailyCap ==
  (\E r \in Runs : obs[r].logWrites > 0) =>
    \A d \in Days : RecordsOn(notificationLog, d) <= MAX_DAILY_NOTIFICATIONS

\* C3: checkNotificationLimit answers true exactly when the persisted log
\* holds fewer than 2 records of today; when it holds two, the run issues
\* no POST and writes no record.
C3_CanSendIffUnderLimit ==
  \A r \in Runs :
    obs[r].todayAtCheck >= 0 =>
      /\ run[r].canNotify <=> obs[r].todayAtCheck < MAX_DAILY_NOTIFICATIONS
      /\ obs[r].todayAtCheck >= MAX_DAILY_NOTIFICATIONS =>
           obs[r].posts = 0 /\ obs[r].logWrites = 0

\* C7: the response's webhookSent is true only if a webhook was delivered
\* in that run.
C7_WebhookSentMeansDelivered ==
  \A r \in Runs :
    (Finished(r) /\ run[r].response.status = 200 /\ run[r].response.webhookSent)
      => obs[r].delivered > 0

\* C4: a record is appended only after the POST was answered 2xx; a POST
\* that throws or is answered non-2xx leaves the log alone, and the run
\* still ends with its normal 200 response.
C4_RecordOnlyAfter2xx ==
  /\ [](\A r \in Runs :
          /\ obs[r].logWrites > 0 => obs[r].delivered > 0
          /\ (obs[r].posts > 0 /\ obs[r].delivered = 0) =>
               /\ run[r].pc \in {"respond", "done"}
               /\ obs[r].logWrites = 0
               /\ Finished(r) =>
                    run[r].response.status = 200 /\ run[r].response.success)
  /\ [][notificationLog' # notificationLog =>
          \E r \in Runs : run[r].pc = "logWrite" /\ obs[r].delivered > 0]_vars

C4_Witness ==
  \E r \in Runs :
    /\ Finished(r)
    /\ obs[r].posts = 1 /\ obs[r].delivered = 0
    /\ run[r].response.status = 200

\* C5: one invocation issues at most one POST and writes at most one
\* record, however many months changed; a failed POST is not repeated.
C5_OnePostPerRun ==
  \A r \in Runs : obs[r].posts <= 1 /\ obs[r].logWrites <= 1

C5_Witness ==
  \E r \in Runs :
    /\ Finished(r)
    /\ Len(changedMonths(run[r].results)) >= 2
    /\ obs[r].posts = 1 /\ obs[r].logWrites = 1

\* C6: the log is read and the POST issued only when every period has an
\* outcome and some outcome has shouldNotify; a run without such an
\* outcome never reads the log and never posts.
C6_ThrottleAfterAllPeriods ==
  \A r \in Runs :
    (\/ obs[r].logReads > 0
     \/ obs[r].posts > 0
     \/ run[r].pc \in {"check", "post", "logRead", "logWrite"}) =>
      /\ AllPeriodsRecorded(run[r].results)
      /\ Len(changedMonths(run[r].results)) > 0

C6_Witness ==
  \E r \in Runs :
    /\ run[r].pc = "post"
    /\ obs[r].logReads = 1
    /\ AllPeriodsRecorded(run[r].results)

\* C8: a period whose capture fails on every retry does not abort the run:
\* every period has an outcome once the loop has ended, the failed period's
\* outcome is an error with shouldNotify false, and the run answers 200
\* with success.
LoopPcs == {"capture", "compare", "create", "save"}

C8_PeriodFailureIsolated ==
  \A r \in Runs :
    run[r].loggedIn =>
      /\ run[r].pc \notin LoopPcs => AllPeriodsRecorded(run[r].results)
      /\ \A i \in DOMAIN run[r].results :
           run[r].results[i].message = CaptureError =>
             run[r].results[i].error /\ ~run[r].results[i].shouldNotify
      /\ run[r].pc = "done" =>
           run[r].response.status = 200 /\ run[r].response.success

C8_Witness ==
  \E r \in Runs :
    /\ Finished(r)
    /\ Len(run[r].results) = 3
    /\ ~run[r].results[1].error
    /\ run[r].results[2].message = CaptureError
    /\ ~run[r].results[3].error
    /\ run[r].response.status = 200

\* C9: once the browser was launched and the login succeeded, the POST
\* request is answered 200 with success and the per-period results,
\* whatever happens later; it is answered 4xx/5xx only when credentials
\* are missing or launch or login failed.
C9_UsableSessionAnswers200 ==
  \A r \in Runs :
    Finished(r) =>
      /\ run[r].loggedIn =>
           /\ run[r].response.status = 200
           /\ run[r].response.success
           /\ run[r].response.monthsChecked = Len(run[r].results)
           /\ AllPeriodsRecorded(run[r].results)
      /\ run[r].response.status >= 400 =>
           ~run[r].credentials \/ run[r].failedAt \in {"launch", "login"}

C9_Witness ==
  \E r \in Runs :
    /\ Finished(r)
    /\ run[r].response.status = 200
    /\ \A i \in DOMAIN run[r].results : run[r].results[i].error
    /\ Len(run[r].results) = Len(MonthsToCheck)

\* C10: no period is processed, no baseline read or written, the log not
\* touched and no webhook sent when credentials are missing, the method is
\* not POST, or launch or login fails; the browser is not launched for
\* missing credentials or a method other than POST.
NoRunEffects(r) ==
  /\ run[r].results = <<>>
  /\ obs[r].baselineReads = 0 /\ obs[r].baselineWrites = 0
  /\ obs[r].logReads = 0 /\ obs[r].logWrites = 0
  /\ obs[r].posts = 0

Rejected(r) ==
  /\ run[r].pc = "done"
  /\ run[r].method # "POST" \/ ~run[r].credentials \/ run[r].failedAt # "none"

\* C10 as stated: every such request is answered with an error status
C10_RejectedGetsErrorStatus ==
  \A r \in Runs :
    Rejected(r) =>
      /\ run[r].response.status \in {400, 405, 500}
      /\ NoRunEffects(r)
      /\ (run[r].method # "POST" \/ ~run[r].credentials) => obs[r].launches = 0

\* C10 amended: a GET is answered 200 with the health report, every other
\* such request with 405, 400 or 500
C10_RejectedStartsNoRun ==
  \A r \in Runs :
    Rejected(r) =>
      /\ run[r].response.status =
           IF run[r].method = "GET" THEN 200
           ELSE IF run[r].method # "POST" THEN 405
           ELSE IF ~run[r].credentials THEN 400
           ELSE 500
      /\ run[r].method = "GET" => run[r].response.healthy
      /\ NoRunEffects(r)
      /\ (run[r].method # "POST" \/ ~run[r].credentials) => obs[r].launches = 0

C10_Witness ==
  \E r \in Runs :
    /\ Rejected(r)
    /\ run[r].failedAt = "login"
    /\ obs[r].launches = 1
    /\ run[r].response.status = 500

\* C11: a run that launched the browser closes it exactly once before
\* runMonitor returns or throws (normal completion, login failure, failed
\* periods); the browser is never closed twice and never closed unlaunched.
InRunMonitor == {"login", "summarize"} \cup LoopPcs

C11_BrowserClosedOnce ==
  \A r \in Runs :
    /\ obs[r].launches <= 1
    /\ obs[r].closes <= obs[r].launches
    /\ run[r].browser = "open" <=> (obs[r].launches = 1 /\ obs[r].closes = 0)
    /\ run[r].browser = "open" => run[r].pc \in InRunMonitor
    /\ (obs[r].launches = 1 /\ run[r].pc \notin InRunMonitor) =>
         obs[r].closes = 1 /\ run[r].browser = "closed"

C11_Witness ==
  \E r \in Runs :
    /\ run[r].pc = "check"
    /\ \E i \in DOMAIN run[r].results : run[r].results[i].error
    /\ obs[r].launches = 1 /\ obs[r].closes = 1

\* C12: for a period without a stored baseline no diff is computed and no
\* outcome pushed by the comparison; saveBaseline is called exactly once
\* for the period, and when compareWithBaseline returns, the screenshot is
\* the stored baseline and the outcome has hasBaseline, shouldNotify and
\* shouldUpdateBaseline all false; runMonitor's own saveBaseline is reached
\* only after an outcome with hasBaseline.
Last(seq) == seq[Len(seq)]

C12_BootstrapSavesOnce ==
  /\ [](\A r \in Runs :
          /\ run[r].pc = "save" =>
               /\ run[r].results # <<>>
               /\ Last(run[r].results).hasBaseline
               /\ Last(run[r].results).month = MonthsToCheck[run[r].idx]
          /\ \A i \in DOMAIN run[r].results :
               ~run[r].results[i].hasBaseline => ~run[r].results[i].shouldNotify)
  /\ [][\A r \in Runs :
          LET key == MonthsToCheck[run[r].idx]
          IN /\ (run[r].pc = "compare" /\ baselines[key] = NoFile /\ run'[r] # run[r]) =>
                  /\ run'[r].pc = "create"
                  /\ run'[r].results = run[r].results
                  /\ baselines' = baselines
             /\ (run[r].pc = "create" /\ run'[r] # run[r]) =>
                  /\ run'[r].pc \notin {"create", "save"}
                  /\ Len(run'[r].results) = Len(run[r].results) + 1
                  /\ ~Last(run'[r].results).shouldNotify
                  /\ ~Last(run'[r].results).shouldUpdateBaseline
                  /\ ~Last(run'[r].results).hasBaseline
                  /\ ~Last(run'[r].results).significantChange
                  /\ \/ /\ ~Last(run'[r].results).error
                        /\ baselines' = [baselines EXCEPT ![key] = run[r].shot]
                        /\ obs'[r].baselineWrites = obs[r].baselineWrites + 1
                     \/ /\ Last(run'[r].results).error
                        /\ baselines' = baselines
                        /\ obs'[r].baselineWrites = obs[r].baselineWrites]_vars

C12_Witness ==
  \E r \in Runs :
    /\ Finished(r)
    /\ Len(run[r].results) = Len(MonthsToCheck)
    /\ \A i \in DOMAIN run[r].results : run[r].results[i] = CreatedOutcome(MonthsToCheck[i])
    /\ obs[r].baselineWrites = Len(MonthsToCheck)
    /\ obs[r].posts = 0
    /\ \A k \in Keys : baselines[k] \in Images

\* C13: an outcome with a baseline has shouldNotify = significantChange and
\* likelyNewAvailability, and shouldUpdateBaseline = significantChange; once
\* the run is through with a period whose change was significant, the
\* stored baseline of the period is the screenshot that was compared, so
\* that comparing the same screenshot again reports no change and
\* shouldNotify false.
C13_SignificantChangeAbsorbed ==
  [][\A r \in Runs :
       LET key == MonthsToCheck[run[r].idx]
       IN /\ (run[r].pc = "compare" /\ run'[r].results # run[r].results) =>
               LET outcome == Last(run'[r].results)
               IN /\ outcome.shouldNotify =
                       (outcome.significantChange /\ outcome.likelyNewAvailability)
                  /\ outcome.shouldUpdateBaseline = outcome.significantChange
                  /\ outcome.significantChange => run'[r].pc = "save"
          /\ (run[r].pc = "save" /\ run'[r] # run[r]) =>
               /\ baselines'[key] = run[r].shot
               /\ ComparedOutcome(key, baselines'[key], run[r].shot).changePercentage = 0
               /\ ~ComparedOutcome(key, baselines'[key], run[r].shot).shouldNotify]_vars

\* C14: comparing a buffer with itself yields changePercentage 0 and
\* shouldNotify false, for every buffer, those shorter than a pixel included.
C14_SelfComparisonIsZero ==
  (call.fn = "performVisualComparison" /\ call.returned /\ ~call.tampered
     /\ call.baselineBuffer = call.currentBuffer) =>
    /\ call.comparison.changePercentage = 0
    /\ ~call.outcome.shouldNotify

\* C15: a pixel pair with a highlight colour on either side is counted
\* neither in changedPixels nor in availabilityIncrease, however far apart
\* the two colours are.
HighlightAt(buffer, i) == isDateHighlight(buffer[i + 1], buffer[i + 2], buffer[i + 3])

HighlightPairs(baselineBuffer, currentBuffer) ==
  {i \in PixelStarts(Min(Len(baselineBuffer), Len(currentBuffer))) :
     HighlightAt(baselineBuffer, i) \/ HighlightAt(currentBuffer, i)}

C15_HighlightPairsNotCounted ==
  (call.fn = "performVisualComparison" /\ call.returned /\ ~call.tampered) =>
    LET pairs == Cardinality(HighlightPairs(call.baselineBuffer, call.currentBuffer))
    IN /\ call.comparison.changedPixels <= call.comparison.totalPixels - pairs
       /\ call.comparison.availabilityIncrease <= call.comparison.totalPixels - pairs

C15_Witness ==
  /\ call.fn = "performVisualComparison" /\ call.returned /\ ~call.tampered
  /\ call.baselineBuffer = White /\ call.currentBuffer = Tan
  /\ call.comparison.dateHighlightChanges = 1
  /\ call.comparison.changedPixels = 0

\* C16: a one-pixel baseline (255,255,255) against a one-pixel current
\* image (225,225,220) yields availabilityIncrease 1, availabilityScore 100
\* and shouldNotify true.
C16_MinimalTrigger ==
  (call.fn = "performVisualComparison" /\ call.returned /\ ~call.tampered
     /\ call.baselineBuffer = White /\ call.currentBuffer = Neutral) =>
    /\ call.comparison.availabilityIncrease = 1
    /\ call.comparison.availabilityScore = 100000
    /\ call.outcome.shouldNotify

\* C17: a comparison against a baseline that counts at least one
\* availability-increase pixel has shouldNotify true.
C17_AnyIncreaseNotifies ==
  (call.fn = "performVisualComparison" /\ call.returned /\ ~call.tampered
     /\ call.comparison.availabilityIncrease >= 1) =>
    call.outcome.shouldNotify

\* C18: the comparison of buffers of any two lengths returns a result,
\* totalPixels is floor(min length / 4), and the result is the one of any
\* two buffers that agree with them on the common prefix, whatever bytes
\* the longer one holds beyond it.
C18_OnlyCommonPrefixCounts ==
  (call.fn = "performVisualComparison" /\ call.returned) =>
    LET minLength == Min(Len(call.baselineBuffer), Len(call.currentBuffer))
    IN /\ call.comparison.totalPixels = minLength \div BytesPerPixel
       /\ call.comparison =
            performVisualComparison(call.baselineBuffer, call.currentBuffer)
       /\ call.comparison =
            performVisualComparison(SubSeq(call.baselineBuffer, 1, minLength),
                                    SubSeq(call.currentBuffer, 1, minLength))

C18_Witness ==
  /\ call.fn = "performVisualComparison" /\ call.returned /\ call.tampered
  /\ Len(call.baselineBuffer) >= Len(call.currentBuffer) + BytesPerPixel + 1
  /\ Len(call.currentBuffer) % BytesPerPixel = 3
  /\ call.comparison.totalPixels >= 1
  /\ call.comparison.changedPixels >= 1

\* C19: the confidence lies in [0, 1] and is the clamped sum of 0.4 (month
\* present), 0.3 (year present), 0.4 (exact pattern), 0.2 (no other month)
\* and -0.3 (more than two other months); with month, year and pattern
\* present and no other month it is 1.0, and the same text followed by
\* three other month names scores at least 0.3 less before clamping and
\* has a confidence that does not exceed 0.8.
OtherMonthsText == <<"August", "September", "October">>

Score(result) ==
  (IF result.detectedMonth # "not_found" THEN 4 ELSE 0)
    + (IF result.detectedYear # 0 THEN 3 ELSE 0)
    + (IF result.hasExactPattern THEN 4 ELSE 0)
    + (IF result.otherMonthsFound = 0 THEN 2 ELSE 0)
    - (IF result.otherMonthsFound > 2 THEN 3 ELSE 0)

C19_ConfidenceFormula ==
  (call.fn = "validateMonthWithTextExtraction" /\ call.returned) =>
    LET result == call.result
        allPresent(res) ==
          res.detectedMonth # "not_found" /\ res.detectedYear # 0 /\ res.hasExactPattern
        more == validateMonthWithTextExtraction(call.allText \o OtherMonthsText,
                                                call.expectedMonth, call.expectedYear)
    IN /\ result.confidence >= 0 /\ result.confidence <= 10
       /\ result.confidence =
            (IF Score(result) < 0 THEN 0 ELSE IF Score(result) > 10 THEN 10 ELSE Score(result))
       /\ (allPresent(result) /\ result.otherMonthsFound = 0) => result.confidence = 10
       /\ (allPresent(result) /\ result.otherMonthsFound > 2) => ~(result.confidence > 8)
       /\ (call.expectedMonth # "any" /\ allPresent(result) /\ result.otherMonthsFound = 0) =>
            /\ more.otherMonthsFound = 3
            /\ Score(more) <= Score(result) - 3
            /\ ~(more.confidence > 8)

C19_Witness ==
  /\ call.fn = "validateMonthWithTextExtraction" /\ call.returned
  /\ call.allText = <<"JULY", "2025">> \o OtherMonthsText
  /\ call.expectedMonth = "July"
  /\ call.result.hasExactPattern
  /\ call.result.otherMonthsFound = 3
  /\ call.result.confidence = 8

\* C20: getMonthsToCheck returns a non-empty list that starts at the
\* current month, continues month by month without gap or repetition, and
\* holds exactly the months whose first day is at or before now + 90 days;
\* the period keys are pairwise distinct.
FollowingMonth(a, b) ==
  \/ a.month < 12 /\ b.year = a.year /\ b.month = a.month + 1
  \/ a.month = 12 /\ b.year = a.year + 1 /\ b.month = 1

FirstDayAt(year, month1) == getTime(FirstOfMonth(year, month1 - 1))

C20_MonthsWithinNinetyDays ==
  (call.fn = "getMonthsToCheck" /\ call.returned) =>
    LET months == call.months
        horizon == getTime(call.date) + 90 * TicksPerDay
        last == months[Len(months)]
    IN /\ Len(months) >= 1
       /\ months[1].year = call.date.year /\ months[1].month = call.date.month + 1
       /\ \A i \in 1..(Len(months) - 1) : FollowingMonth(months[i], months[i + 1])
       /\ \A i \in DOMAIN months : FirstDayAt(months[i].year, months[i].month) <= horizon
       /\ IF last.month = 12
            THEN FirstDayAt(last.year + 1, 1) > horizon
            ELSE FirstDayAt(last.year, last.month + 1) > horizon
       /\ \A i, j \in DOMAIN months : i # j => months[i].key # months[j].key

C20_Witness ==
  /\ call.fn = "getMonthsToCheck" /\ call.returned
  /\ Len(call.months) = 4
  /\ call.months[1].key = <<"2", "0", "2", "4", "-", "1", "1">>
  /\ call.months[4].key = <<"2", "0", "2", "5", "-", "0", "2">>

C22_NothingSerialises ==
  \A r \in Runs :
    /\ run[r].pc = "check" => ENABLED CheckLimit(r)
    /\ run[r].pc = "post" => ENABLED Post(r)
    /\ run[r].pc = "logRead" => ENABLED LogRead(r)
    /\ run[r].pc = "logWrite" => ENABLED LogWrite(r)
    /\ obs[r].delivered <= 1
    /\ obs[r].delivered = 1 =>
         (run[r].canNotify /\ obs[r].todayAtCheck >= 0)

C22_Witness ==
  /\ \A r \in Runs :
       /\ run[r].pc = "done"
       /\ obs[r].todayAtCheck = MAX_DAILY_NOTIFICATIONS - 1
       /\ obs[r].delivered = 1
       /\ obs[r].logWrites = 1
  /\ now = 0
  /\ deliveredOn[0] = MAX_DAILY_NOTIFICATIONS + 1
  /\ Len(notificationLog) = MAX_DAILY_NOTIFICATIONS

\* C23: a run that stops while it is before or inside the period loop has
\* touched nothing but the baselines of the periods it has reached.  Every
\* step changes at most the baseline of the period a run is processing at
\* that moment (so the baselines of later periods are still the old ones,
\* and those written for earlier periods stay written), and until the run
\* leaves the loop it has read and written no notification log, sent no
\* webhook and delivered none.
C23_StoppedRunLeavesRestUntouched ==
  [][/\ \A i \in DOMAIN MonthsToCheck :
          baselines'[MonthsToCheck[i]] # baselines[MonthsToCheck[i]] =>
            \E r \in Runs : run[r].pc \in LoopPcs /\ run[r].idx = i
     /\ \A r \in Runs :
          run[r].pc \in {"launch", "login"} \cup LoopPcs =>
            /\ notificationLog' = notificationLog
            /\ deliveredOn' = deliveredOn
            /\ obs'[r].posts = 0 /\ obs'[r].delivered = 0
            /\ obs'[r].logReads = 0 /\ obs'[r].logWrites = 0]_vars

\* the run has completed two periods and replaced their baselines; the
\* third baseline is the old one, and nothing was sent or logged
C23_Witness ==
  \E r \in Runs :
    /\ run[r].pc = "capture" /\ run[r].idx = 3 /\ run[r].attempt = 2
    /\ obs[r].baselineWrites = 2
    /\ baselines[MonthsToCheck[1]] = Tan /\ baselines[MonthsToCheck[2]] = Tan
    /\ baselines[MonthsToCheck[3]] = Dark
    /\ obs[r].posts = 0 /\ obs[r].logWrites = 0
    /\ notificationLog = <<>>

\* C24 as stated: a baseline is written only after the comparison of the
\* period completed (its outcome is recorded) and only when that outcome
\* has shouldUpdateBaseline
C24_WrittenOnlyWhenInstructed ==
  [][\A r \in Runs :
       obs'[r].baselineWrites > obs[r].baselineWrites =>
         /\ run[r].results # <<>>
         /\ Last(run[r].results).month = MonthsToCheck[run[r].idx]
         /\ Last(run[r].results).shouldUpdateBaseline]_vars

\* C24 (amended): periods are processed strictly in order, one position at
\* a time: a run moves from period N only to period N + 1, starting it at
\* its first capture attempt with an outcome recorded for each period
\* before it.  The baseline of a period is written only while the run is at
\* that period, either by runMonitor after the comparison returned an
\* outcome with shouldUpdateBaseline, or by compareWithBaseline itself when
\* the stored baseline could not be read: then no comparison was made and
\* the outcome recorded has shouldUpdateBaseline false.
C24_SequentialPeriods ==
  [][\A r \in Runs :
       /\ (run[r].pc \in LoopPcs /\ run'[r].idx # run[r].idx) =>
            \/ /\ run'[r].idx = run[r].idx + 1
               /\ run'[r].pc = "capture" /\ run'[r].attempt = 1
               /\ run'[r].shot = NoShot
               /\ Len(run'[r].results) >= run[r].idx
               /\ \A i \in 1..run[r].idx :
                    \E j \in DOMAIN run'[r].results :
                      run'[r].results[j].month = MonthsToCheck[i]
            \/ /\ run[r].idx = Len(MonthsToCheck)
               /\ run'[r].pc = "summarize"
       /\ obs'[r].baselineWrites > obs[r].baselineWrites =>
            /\ obs'[r].baselineWrites = obs[r].baselineWrites + 1
            /\ baselines' = [baselines EXCEPT ![MonthsToCheck[run[r].idx]] = run[r].shot]
            /\ \/ /\ run[r].pc = "save"
                  /\ Last(run[r].results).month = MonthsToCheck[run[r].idx]
                  /\ Last(run[r].results).hasBaseline
                  /\ Last(run[r].results).shouldUpdateBaseline
                  /\ run'[r].results = run[r].results
               \/ /\ run[r].pc = "create"
                  /\ \A i \in DOMAIN run[r].results :
                       run[r].results[i].month # MonthsToCheck[run[r].idx]
                  /\ Last(run'[r].results).month = MonthsToCheck[run[r].idx]
                  /\ ~Last(run'[r].results).hasBaseline
                  /\ ~Last(run'[r].results).shouldUpdateBaseline]_vars

\* the first period was compared and its baseline replaced, the second was
\* then created, and the run is at the third
C24_Witness ==
  \E r \in Runs :
    /\ run[r].pc = "compare" /\ run[r].idx = 3
    /\ Len(run[r].results) = 2
    /\ run[r].results[1].shouldUpdateBaseline
    /\ run[r].results[2].error
    /\ obs[r].baselineWrites = 1 /\ obs[r].baselineReads = 2
    /\ baselines[MonthsToCheck[1]] = Tan

NavLoopPcs == {"loop", "verify", "contradiction", "click", "stabilize"}

\* C25: every call of navigateToMonth ends, by returning or by throwing,
\* whatever the page does; it makes at most 12 passes of the loop and at
\* most one click in each, so at most 12 clicks.
C25_NavigationTerminates ==
  /\ [](Navigating =>
          /\ call.attempts <= MAX_ATTEMPTS
          /\ call.pc \in NavLoopPcs => call.attempts < MAX_ATTEMPTS
          /\ call.clicks <= call.attempts + (IF call.pc = "stabilize" THEN 1 ELSE 0)
          /\ call.clicks <= MAX_ATTEMPTS)
  /\ <>(call.pc \in {"returned", "thrown"})

\* the twelfth pass clicked like the eleven before it and the call ended
C25_Witness ==
  /\ Navigating /\ call.pc \in {"captured", "thrown"}
  /\ call.attempts = MAX_ATTEMPTS /\ call.clicks = MAX_ATTEMPTS

\* C26: when neither the text extraction nor any header selector gives a
\* month text, navigateToMonth throws 'Cannot detect month' before the
\* loop: no pass of the loop was made, nothing was clicked and no
\* screenshot is returned; the loop is only ever entered with a selector
\* and a text.
C26_UndetectedFailsBeforeLoop ==
  Navigating =>
    /\ (call.pc \notin {"start", "detect", "fallback"} /\ call.currentMonthText = <<>>) =>
         /\ call.pc = "thrown"
         /\ call.error \in {"cannot_detect", "screenshot", "textContent"}
         /\ call.workingSelector = ""
         /\ call.attempts = 0 /\ call.clicks = 0 /\ ~call.screenshot
    /\ call.error = "cannot_detect" =>
         (call.pc = "thrown" /\ call.currentMonthText = <<>> /\ call.attempts = 0)
    /\ call.pc \in NavLoopPcs \cup {"final", "returned", "captured"} =>
         (call.workingSelector # "" /\ call.currentMonthText # <<>>)

C26_Witness ==
  /\ Navigating /\ call.pc = "thrown" /\ call.error = "cannot_detect"
  /\ call.clicks = 0 /\ ~call.screenshot

\* the direction as C27 words it
DirectionOf(current, target) ==
  IF current.month = target.month /\ current.year = target.year THEN "already_there"
  ELSE IF current.year # target.year
    THEN (IF current.year < target.year THEN "forward" ELSE "backward")
  ELSE IF \E i, j \in DOMAIN MonthList :
            MonthList[i] = current.month /\ MonthList[j] = target.month /\ i >= j
    THEN "backward"
  ELSE "forward"

\* C27: calculateNavigationDirection gives 'already_there' iff month and
\* year equal the target's, otherwise the years decide and only for equal
\* years the month order; an unparsable header (unknown, 0) gives 'forward';
\* and a pass whose parsed header equals the target does not click.
C27_DirectionAndNoClickAtTarget ==
  Navigating =>
    LET target == parsedTarget(call.monthData)
    IN /\ \A text \in PageTexts :
            calculateNavigationDirection(parseMonthHeader(text), target)
              = DirectionOf(parseMonthHeader(text), target)
       /\ calculateNavigationDirection(UnknownMonth, target) = "forward"
       /\ call.pc \in {"click", "stabilize"} =>
            /\ call.parsedCurrent # target
            /\ call.navigationDirection \in {"forward", "backward"}
            /\ call.navigationDirection = DirectionOf(call.parsedCurrent, target)
       /\ call.pc \in {"verify", "contradiction"} => call.parsedCurrent = target
       /\ call.pc = "contradiction" => call.navigationDirection = "already_there"

\* the header shows January 2026 and the target is October 2025: backward,
\* although January comes before October
C27_Witness ==
  /\ Navigating /\ call.pc = "click"
  /\ call.monthData = [month |-> 10, year |-> 2025]
  /\ call.parsedCurrent = [month |-> "january", year |-> 2026]
  /\ call.navigationDirection = "backward"

\* C28: after the 'already_there' contradiction navigateToMonth detects the
\* current month again (text extraction, then header selectors) before the
\* next attempt.
C28_RetriesFromDetection ==
  [][(Navigating /\ call.pc = "contradiction") => call'.pc = "detect"]_vars

\* C29: when no control of the direction can be clicked, no further pass of
\* the loop is made and navigateToMonth does not return.
C29_NoControlAborts ==
  (Navigating /\ ~call.clickSuccess) =>
    call.pc \in {"final", "thrown"}

\* C30: waitForCalendarStability makes at most 10 polls; it returns as
\* soon as 3 polls in a row have read the same text, and otherwise
\* returns after the 10th poll.
C30_ReturnsAtThreeIdentical ==
  call.fn = "waitForCalendarStability" =>
    /\ call.i <= MAX_POLLS
    /\ call.returned <=> (call.identical >= STABLE_READINGS \/ call.i = MAX_POLLS)

\* C31: navigateToMonth returns only when the re-parsed header equals the
\* target and the text extraction confidence is above 0.8 and the date
\* cells were checked and found valid.
C31_SuccessNeedsAllSignals ==
  (Navigating /\ call.pc \in {"returned", "captured"}) =>
    /\ call.verdict.headerSuccess
    /\ call.verdict.textSuccess
    /\ call.verdict.hasValidDates

C33_ThreeAttemptsWithBackoff ==
  /\ [](\A r \in Runs :
          /\ run[r].pc = "capture" =>
               /\ run[r].attempt \in 1..3
               /\ run[r].delays = SubSeq(<<1000, 2000>>, 1, run[r].attempt - 1)
          /\ run[r].pc \in {"compare", "create", "save"} =>
               /\ run[r].attempt \in 1..3
               /\ Len(run[r].delays) = run[r].attempt - 1
               /\ run[r].shot \in Images)
  /\ [][\A r \in Runs :
          (run[r].pc = "capture" /\ run'[r] # run[r]) =>
            \/ /\ run'[r].pc = "compare"
               /\ run'[r].shot \in Images
               /\ run'[r].attempt = run[r].attempt
               /\ run'[r].delays = run[r].delays
               /\ run'[r].results = run[r].results
            \/ /\ run[r].attempt < 3
               /\ run'[r].pc = "capture" /\ run'[r].idx = run[r].idx
               /\ run'[r].attempt = run[r].attempt + 1
               /\ Len(run'[r].delays) = Len(run[r].delays) + 1
               /\ run'[r].results = run[r].results
            \/ /\ run[r].attempt = 3
               /\ run[r].delays = <<1000, 2000>>
               /\ run'[r].pc \in {"capture", "summarize"}
               /\ run'[r].idx # run[r].idx
               /\ run'[r].results =
                    Append(run[r].results,
                           ErrorOutcome(MonthsToCheck[run[r].idx], CaptureError))]_vars

\* the third attempt of the second period, after waits of 1 s and 2 s; the
\* first period had failed three times
C33_Witness ==
  \E r \in Runs :
    /\ run[r].pc = "capture" /\ run[r].idx = 2 /\ run[r].attempt = 3
    /\ run[r].delays = <<1000, 2000>>
    /\ Len(run[r].results) = 1 /\ run[r].results[1].error
    /\ run[r].results[1].message = CaptureError

NewRecord == [timestamp |-> now, type |-> "availability_change"]

Younger(n) == now - n.timestamp < 7 * TicksPerDay

\* C34: logNotification appends one record stamped with the current time,
\* then prunes, then persists.  What it is about to write is the log it
\* read without the records of seven days ago and older, followed by the
\* new record (or the new record alone when the log could not be read);
\* every record of today that it read is still there; and after the write
\* the log holds only records younger than seven days, the last of them
\* the new one.
C34_AppendPrunePersist ==
  /\ run[1].pc = "logWrite" =>
       /\ run[1].logBuf \in {Append(SelectSeq(notificationLog, Younger), NewRecord),
                             <<NewRecord>>}
       /\ Len(run[1].logBuf) > 1 =>
            Len(todayNotifications(run[1].logBuf))
              = Len(todayNotifications(notificationLog)) + 1
  /\ obs[1].logWrites = 1 =>
       /\ \A i \in DOMAIN notificationLog : Younger(notificationLog[i])
       /\ Last(notificationLog) = NewRecord
       /\ Len(todayNotifications(notificationLog)) >= 1

\* the log held a record of exactly seven days ago, a younger one and one
\* of today; the first was pruned and the new record appended
C34_Witness ==
  /\ run[1].pc = "respond" /\ obs[1].logWrites = 1
  /\ Len(notificationLog) = 3
  /\ notificationLog[1].timestamp = now - SEVEN_DAYS + 1
  /\ notificationLog[2].timestamp = 0
  /\ notificationLog[3] = NewRecord
  /\ deliveredOn[0] = 2

\* C35: a completed run has recorded exactly one outcome per period, in
\* period order, so monthsChecked is the number of periods; and a period
\* recorded as an error is not among changedMonths.
C35_OneOutcomePerPeriod ==
  \A r \in Runs :
    (Finished(r) /\ run[r].response.status = 200 /\ run[r].loggedIn) =>
      /\ Len(run[r].results) = Len(MonthsToCheck)
      /\ \A i \in DOMAIN run[r].results : run[r].results[i].month = MonthsToCheck[i]
      /\ run[r].response.monthsChecked = Len(MonthsToCheck)
      /\ \A i, j \in DOMAIN run[r].results :
           run[r].results[i].error =>
             ~(run[r].results[j].month = run[r].results[i].month
               /\ run[r].results[j].shouldNotify)


ThrottlePcs == {"check", "post", "logRead", "logWrite", "respond"}

C37_AnyReadFailureRecreates ==
  /\ [](\A r \in Runs :
          run[r].pc = "compare" =>
            ENABLED (Compare(r) /\ run'[r].pc = "create" /\ baselines' = baselines))
  /\ [][\A r \in Runs :
          LET key == MonthsToCheck[run[r].idx]
          IN /\ (run[r].pc = "compare" /\ run'[r] # run[r]) =>
                  \/ /\ run'[r].pc = "create"
                     /\ run'[r].results = run[r].results
                  \/ /\ baselines[key] # NoFile
                     /\ Len(run'[r].results) = Len(run[r].results) + 1
                     /\ Last(run'[r].results).hasBaseline
                     /\ ~Last(run'[r].results).error
             /\ (run[r].pc = "create" /\ baselines[key] # NoFile
                   /\ obs'[r].baselineWrites > obs[r].baselineWrites) =>
                  /\ baselines' = [baselines EXCEPT ![key] = run[r].shot]
                  /\ Last(run'[r].results) = CreatedOutcome(key)]_vars

C37_Witness ==
  \E r \in Runs :
    /\ Finished(r)
    /\ Len(run[r].results) = Len(MonthsToCheck)
    /\ run[r].results[1] = CreatedOutcome(MonthsToCheck[1])
    /\ baselines[MonthsToCheck[1]] = Tan
    /\ run[r].results[2].hasBaseline
    /\ ~run[r].results[2].significantChange
    /\ baselines[MonthsToCheck[2]] = Dark
    /\ obs[r].baselineWrites = 1


\* C38: the throttle fails open. Whenever the limit is checked, a failing
\* read of the log admits the webhook; whenever a delivery is logged, a
\* failing read leaves the new record alone in the buffer to be written;
\* a failing write leaves the file as it was and the run goes on to its
\* response; and a check that admits the webhook although the log already
\* shows the day's quota leads to a POST.
C38_ThrottleFailsOpen ==
  /\ [](\A r \in Runs :
          /\ run[r].pc = "check" =>
               ENABLED (CheckLimit(r) /\ run'[r].canNotify /\ run'[r].pc = "post")
          /\ run[r].pc = "logRead" =>
               ENABLED (LogRead(r) /\ run'[r].logBuf = <<NewRecord>>)
          /\ run[r].pc = "logWrite" =>
               ENABLED (LogWrite(r) /\ notificationLog' = notificationLog
                          /\ run'[r].pc = "respond"))
  /\ [][\A r \in Runs :
          /\ (run[r].pc = "check" /\ run'[r] # run[r]) =>
               /\ run'[r].canNotify = (run'[r].pc = "post")
               /\ Len(todayNotifications(notificationLog)) < MAX_DAILY_NOTIFICATIONS
                    => run'[r].canNotify
          /\ (run[r].pc \in {"logRead", "logWrite"} /\ run'[r] # run[r]) =>
               /\ run'[r].pc \in {"logWrite", "respond"}
               /\ run'[r].response = run[r].response]_vars

C38_Witness ==
  \E r \in Runs :
    /\ Finished(r)
    /\ obs[r].todayAtCheck = MAX_DAILY_NOTIFICATIONS
    /\ obs[r].delivered = 1
    /\ deliveredOn[DateString(now)] > MAX_DAILY_NOTIFICATIONS
    /\ notificationLog = <<NewRecord>>


CurrentRGB == <<call.currentBuffer[1], call.currentBuffer[2], call.currentBuffer[3]>>

NeutralBand(R, G, B) ==
  /\ R \in 215..240 /\ G \in 215..240 /\ B \in 210..235
  /\ Abs(R - G) < 15 /\ Abs(G - B) < 15

TanBand(R, G, B) ==
  /\ R \in 210..235 /\ G \in 205..230 /\ B \in 190..220
  /\ R > B + 10

LightGrayRule(R, G, B) == Abs(R - G) < 20 /\ Abs(G - B) < 20 /\ R > 180

\* C39: a current pixel of the neutral availability band matches the
\* light-gray highlight rule and never counts as an availability increase;
\* a pixel that does count is of the tan band, matches no highlight rule
\* and has B <= 200.
C39_NeutralBandIsNoise ==
  (call.fn = "performVisualComparison" /\ call.returned) =>
    LET R == CurrentRGB[1]
        G == CurrentRGB[2]
        B == CurrentRGB[3]
    IN /\ NeutralBand(R, G, B) =>
            /\ LightGrayRule(R, G, B)
            /\ call.comparison.availabilityIncrease = 0
            /\ ~call.comparison.likelyNewAvailability
       /\ call.comparison.availabilityIncrease > 0 =>
            /\ TanBand(R, G, B)
            /\ ~NeutralBand(R, G, B)
            /\ ~isDateHighlight(R, G, B)
            /\ B <= 200

C39_Witness ==
  /\ call.fn = "performVisualComparison"
  /\ call.returned
  /\ call.baselineBuffer = Dark
  /\ NeutralBand(CurrentRGB[1], CurrentRGB[2], CurrentRGB[3])
  /\ CurrentRGB[3] <= 220
  /\ call.comparison.dateHighlightChanges = 1
  /\ call.comparison.availabilityIncrease = 0


\* C40: every attempt to capture a period, the last failing one included,
\* leaves all baselines, the notification log and the deliveries as they
\* are and reads or writes no file; the outcome recorded when the last
\* attempt failed is an error outcome of that period with shouldNotify and
\* shouldUpdateBaseline false, so the months to notify stay the same.
C40_FailedCaptureTouchesNothing ==
  [][\A r \in Runs :
       (run[r].pc = "capture" /\ run'[r] # run[r]) =>
         /\ baselines' = baselines
         /\ notificationLog' = notificationLog
         /\ deliveredOn' = deliveredOn
         /\ obs'[r] = obs[r]
         /\ run'[r].results # run[r].results =>
              /\ run[r].attempt = maxRetries
              /\ Len(run'[r].results) = Len(run[r].results) + 1
              /\ Last(run'[r].results).month = MonthsToCheck[run[r].idx]
              /\ Last(run'[r].results).error
              /\ ~Last(run'[r].results).shouldNotify
              /\ ~Last(run'[r].results).shouldUpdateBaseline
              /\ changedMonths(run'[r].results) = changedMonths(run[r].results)
              /\ run'[r].pc \in {"capture", "summarize"}]_vars

\* the second period failed for good and kept its baseline, while the
\* periods before and after it replaced theirs
C40_Witness ==
  \E r \in Runs :
    /\ Finished(r)
    /\ Len(run[r].results) = Len(MonthsToCheck)
    /\ run[r].results[2] = ErrorOutcome(MonthsToCheck[2], CaptureError)
    /\ baselines[MonthsToCheck[2]] = Dark
    /\ baselines[MonthsToCheck[1]] = Tan
    /\ baselines[MonthsToCheck[3]] = Tan
    /\ obs[r].baselineReads = 2
    /\ obs[r].baselineWrites = 2

====
